---- MODULE Spec2Model ----
(***************************************************************************)
(* A model of the Enumerable class of qinn (src/src/qinn.ts): the dual     *)
(* (synchronous / asynchronous) pull protocol, the memoization layer, the  *)
(* ordering engine and the deferred operator pipeline.                     *)
(*                                                                         *)
(* The module holds several state machines, one per part of the class.     *)
(* Each has its own variables and its own specification; the variables of  *)
(* the other machines stay at their idle value under it.                   *)
(***************************************************************************)
EXTENDS Naturals, Integers, Sequences, FiniteSets, TLC

VARIABLES
    \* ---- synchronous memoize (qinn.ts 139-164)
    input,      \* the array wrapped by Enumerable.from: a sequence of elements
    useSel,     \* TRUE when memoize was given a keySelector
    cache,      \* the closure's Map: key -> value computed by fn
    invoked,    \* per position of the array, how often fn was invoked on that element
    trav,       \* the iterators handed out by memoizedIterable[Symbol.iterator]
    \* ---- memoizeAsync (qinn.ts 203-226)
    ainput,     \* the array wrapped by Enumerable.from
    auseSel,    \* TRUE when memoizeAsync was given a keySelector
    fnKind,     \* "value": fn returns its result; "async": fn returns a Promise
    acache,     \* the closure's Map: key -> Promise (here: its index in futures)
    futures,    \* the Promises made by Promise.resolve(fn(item)), in order of creation
    ainvoked,   \* per position of the array, how often fn was invoked on that element
    atrav,      \* the async generators handed out by memoizedIterable[Symbol.asyncIterator]
    \* ---- the dual pull protocol of one Sequence (qinn.ts 45-67, 736-751)
    skind,      \* what `iterable` is: "array", "generator" or "asyncGenerator"
    sitems,     \* the elements the source produces
    spos,       \* how many elements a one-shot source (a generator) has produced
    sgen,       \* a generator source: whose element it is yielding, its queue, closed
    cons,       \* the consumers of the Sequence: their mode, position, output, error
    \* ---- the ordering engine (qinn.ts 540-595)
    oinput,     \* the array under Enumerable.from
    odir,       \* "none", or the operator that was applied: "asc", "desc"
    oout,       \* what toArray() of the ordered Sequence returned
    ostack,     \* the calls of the ordering recursion still to run
    \* ---- the operator pipeline (qinn.ts 243-275, 450-521, 609-647, 695-715, 824-893)
    heap,       \* the Sequence objects and their generators, the log of calls
    pst,        \* "build", then the terminal's for-of: "pulling", "done", "failed"
    pit,        \* the iterator the terminal pulls
    pnexts,     \* how many times the terminal called next()
    pout,       \* the elements the terminal received
    perr,       \* the error the terminal received
    term        \* the aggregation terminal called, its argument and result

memoVars == <<input, useSel, cache, invoked, trav>>
asyncVars == <<ainput, auseSel, fnKind, acache, futures, ainvoked, atrav>>
pullVars == <<skind, sitems, spos, sgen, cons>>
orderVars == <<oinput, odir, oout, ostack>>
pipeVars == <<heap, pst, pit, pnexts, pout, perr, term>>
vars == <<input, useSel, cache, invoked, trav,
          ainput, auseSel, fnKind, acache, futures, ainvoked, atrav,
          skind, sitems, spos, sgen, cons,
          oinput, odir, oout, ostack,
          heap, pst, pit, pnexts, pout, perr, term>>

\* what the actions of one machine leave alone: the other machines
notMemo == <<asyncVars, pullVars, orderVars, pipeVars>>
notAsync == <<memoVars, pullVars, orderVars, pipeVars>>
notPull == <<memoVars, asyncVars, orderVars, pipeVars>>
notOrder == <<memoVars, asyncVars, pullVars, pipeVars>>
notPipe == <<memoVars, asyncVars, pullVars, orderVars>>

----------------------------------------------------------------------------
(* Bounds of the model. *)

\* longest source array
MaxLen == 3
\* largest id of an element
MaxId == 2
\* iterators taken from one memoized Sequence
NTrav == 2
\* longest source array of memoizeAsync
AMaxLen == 2
\* async iterators taken from one memoizeAsync Sequence
NATrav == 2
\* longest source of the pull protocol
PMaxLen == 2
\* largest element of a source of the pull protocol
PMaxVal == 2
\* consumers of one Sequence
NCons == 2
\* longest array handed to the ordering engine
OMaxLen == 4
\* largest finite sort key
OMaxKey == 3
\* largest tag telling elements of one key apart
OMaxTag == 2
\* longest source array of a pipeline
PSrcLen == 2
\* most stages of a pipeline
MaxStages == 2
\* largest n handed to take
MaxTake == 2
\* longest array a single operator is applied to
QMaxLen == 3
\* most elements followed out of a source that never ends
MaxPulls == 6

----------------------------------------------------------------------------
(* Helpers on sequences. *)

Range(s) == { s[i] : i \in 1..Len(s) }

SeqsUpTo(S, n) == UNION { [1..k -> S] : k \in 0..n }

----------------------------------------------------------------------------
(* The elements and the caller-supplied functions of the memoization       *)
(* tests: objects { id, tag }, several of which may carry the same id.     *)

\* the tags that tell the instances of one id apart
Tags == {1, 2}

Elems == [id : 1..MaxId, tag : Tags]

\* JSON.stringify(item), the default key: the structural encoding of the
\* object, its properties in order; two instances with equal properties
\* encode alike.
JSONstringify(item) == <<"{", "id", item.id, "tag", item.tag, "}">>

\* the keySelector of the tests: obj => obj.id
keySelector(item) == item.id

\* const key = keySelector ? keySelector(item) : JSON.stringify(item)
KeyOf(item, sel) == IF sel THEN keySelector(item) ELSE JSONstringify(item)

\* fn, the memoized transformation: it reads the whole element
fn(item) == 10 * item.id + item.tag

\* fn throws on the elements with this id and tag (a deterministic failure)
fnThrows(item) == item.id = MaxId /\ item.tag = 2

----------------------------------------------------------------------------
(* Synchronous memoize: Enumerable.from(input).memoize(fn, keySelector?).   *)
(* The Map `cache` belongs to the Sequence returned by memoize; every       *)
(* call of its [Symbol.iterator]() starts a new generator over the array.   *)

\* an iterator not yet handed out
NoTrav == [st |-> "none", pos |-> 0, out |-> <<>>]

InitMemo ==
    /\ input \in SeqsUpTo(Elems, MaxLen)
    /\ useSel \in BOOLEAN
    /\ cache = <<>>
    /\ invoked = [i \in 1..Len(input) |-> 0]
    /\ trav = [t \in 1..NTrav |-> NoTrav]

IdleMemo ==
    /\ input = <<>>
    /\ useSel = FALSE
    /\ cache = <<>>
    /\ invoked = <<>>
    /\ trav = <<>>

\* memoizedIterable[Symbol.iterator](): a new generator, suspended at its
\* start; nothing of its body has run
MemoIterate(t) ==
    /\ trav[t].st = "none"
    /\ trav' = [trav EXCEPT ![t].st = "start"]
    /\ UNCHANGED <<input, useSel, cache, invoked, notMemo>>

\* A memoize that never writes its Map
CacheSetDropped(c, key, result) == c

\* cache.set(key, result): the entry written on a miss
CacheSet(c, key, result) ==
    [k \in DOMAIN c \cup {key} |-> IF k = key THEN result ELSE c[k]]

\* A memoize that looks nothing up: fn and cache.set for every element
MemoBodyNoLookup(c, item, sel) ==
    IF fnThrows(item)
    THEN [called |-> TRUE, threw |-> TRUE, cache |-> c, yields |-> <<>>]
    ELSE [called |-> TRUE, threw |-> FALSE,
          cache |-> CacheSet(c, KeyOf(item, sel), fn(item)), yields |-> <<fn(item)>>]

\* A memoize that yields nothing for an element whose key is cached
MemoBodySkipHit(c, item, sel) ==
    LET key == KeyOf(item, sel)
    IN  IF key \in DOMAIN c
        THEN [called |-> FALSE, threw |-> FALSE, cache |-> c, yields |-> <<>>]
        ELSE IF fnThrows(item)
        THEN [called |-> TRUE, threw |-> TRUE, cache |-> c, yields |-> <<>>]
        ELSE [called |-> TRUE, threw |-> FALSE,
              cache |-> CacheSet(c, key, fn(item)), yields |-> <<fn(item)>>]

\* A memoize that records the failure of fn under the key
MemoBodyCachesFailure(c, item, sel) ==
    LET key == KeyOf(item, sel)
    IN  IF key \in DOMAIN c
        THEN [called |-> FALSE, threw |-> FALSE, cache |-> c, yields |-> <<c[key]>>]
        ELSE IF fnThrows(item)
        THEN [called |-> TRUE, threw |-> TRUE, cache |-> CacheSet(c, key, 0), yields |-> <<>>]
        ELSE [called |-> TRUE, threw |-> FALSE,
              cache |-> CacheSet(c, key, fn(item)), yields |-> <<fn(item)>>]

\* The body of the generator's loop for one element (lines 149-158): the
\* key, the lookup, and on a miss the call of fn followed by cache.set;
\* `yields` is what the body hands to yield. When fn throws, the exception
\* leaves the loop before cache.set and nothing is yielded.
MemoBody(c, item, sel) ==
    LET key == KeyOf(item, sel)
    IN  IF key \in DOMAIN c
        THEN [called |-> FALSE, threw |-> FALSE, cache |-> c, yields |-> <<c[key]>>]
        ELSE IF fnThrows(item)
        THEN [called |-> TRUE, threw |-> TRUE, cache |-> c, yields |-> <<>>]
        ELSE [called |-> TRUE, threw |-> FALSE,
              cache |-> CacheSet(c, key, fn(item)), yields |-> <<fn(item)>>]

\* One next() of generator t: the for-of over the array advances by one
\* element and the loop body runs to its yield, or the array is exhausted
\* and the generator returns, or fn throws and the generator is finished
\* by the exception.
MemoNext(t) ==
    /\ trav[t].st \in {"start", "suspended"}
    /\ IF trav[t].pos = Len(input)
       THEN /\ trav' = [trav EXCEPT ![t].st = "done"]
            /\ UNCHANGED <<cache, invoked>>
       ELSE LET i == trav[t].pos + 1
                r == MemoBody(cache, input[i], useSel)
            IN  /\ cache' = r.cache
                /\ invoked' = [invoked EXCEPT ![i] = IF r.called THEN @ + 1 ELSE @]
                /\ trav' = [trav EXCEPT ![t] =
                       IF r.threw
                       THEN [st |-> "failed", pos |-> i, out |-> @.out]
                       ELSE [st |-> "suspended", pos |-> i,
                             out |-> @.out \o r.yields]]
    /\ UNCHANGED <<input, useSel, notMemo>>

NextMemo ==
    \/ \E t \in DOMAIN trav : MemoIterate(t)
    \/ \E t \in DOMAIN trav : MemoNext(t)

IdleAsync ==
    /\ ainput = <<>>
    /\ auseSel = FALSE
    /\ fnKind = "value"
    /\ acache = <<>>
    /\ futures = <<>>
    /\ ainvoked = <<>>
    /\ atrav = <<>>

----------------------------------------------------------------------------
(* memoizeAsync: Enumerable.from(ainput).memoizeAsync(fn, keySelector?).    *)
(* The Map holds Promises. Every call of [Symbol.asyncIterator]() starts a  *)
(* new async generator; a generator runs without interruption from one      *)
(* await to the next. Its awaits are: the upstream element inside           *)
(* `for await`, and the Promise handed to `yield`, which an async generator *)
(* awaits before it delivers the value.                                     *)
(* fn is the asynchronous transformation the documentation asks for: it     *)
(* returns a value (the tests' fn) or a Promise, and a failure of fn is a   *)
(* Promise that rejects.                                                    *)

ANoTrav ==
    [st |-> "none", pos |-> 0, out |-> <<>>, got |-> <<>>, wait |-> 0]

InitAsync ==
    /\ ainput \in SeqsUpTo(Elems, AMaxLen)
    /\ auseSel \in BOOLEAN
    /\ fnKind \in {"value", "async"}
    /\ acache = <<>>
    /\ futures = <<>>
    /\ ainvoked = [i \in 1..Len(ainput) |-> 0]
    /\ atrav = [t \in 1..NATrav |-> ANoTrav]

\* the Promise of an async fn rejects on the elements fn fails on
fnRejects(item, kind) == kind = "async" /\ fnThrows(item)

\* Promise.resolve(fn(item)): a value gives a Promise already fulfilled, the
\* Promise of an async fn is pending until fn settles it
PromiseResolve(item, i, key, kind) ==
    [key |-> key, pos |-> i,
     status |-> IF kind = "value" THEN "resolved" ELSE "pending"]

\* A memoizeAsync that caches nothing before the await
AsyncBodyNoSet(c, fs, item, i, sel, kind) ==
    LET key == KeyOf(item, sel)
    IN  IF key \in DOMAIN c
        THEN [called |-> FALSE, cache |-> c, futures |-> fs, promise |-> c[key]]
        ELSE [called |-> TRUE, cache |-> c,
              futures |-> Append(fs, PromiseResolve(item, i, key, kind)),
              promise |-> Len(fs) + 1]

\* A memoizeAsync that looks nothing up: a new Promise for every element,
\* written over the entry of its key
AsyncBodyNoLookup(c, fs, item, i, sel, kind) ==
    LET key == KeyOf(item, sel)
    IN  [called |-> TRUE, cache |-> CacheSet(c, key, Len(fs) + 1),
         futures |-> Append(fs, PromiseResolve(item, i, key, kind)),
         promise |-> Len(fs) + 1]

\* A memoizeAsync that calls fn again for a key whose Promise has rejected
AsyncBodyRetriesRejected(c, fs, item, i, sel, kind) ==
    LET key == KeyOf(item, sel)
    IN  IF key \in DOMAIN c /\ fs[c[key]].status # "rejected"
        THEN [called |-> FALSE, cache |-> c, futures |-> fs, promise |-> c[key]]
        ELSE [called |-> TRUE, cache |-> CacheSet(c, key, Len(fs) + 1),
              futures |-> Append(fs, PromiseResolve(item, i, key, kind)),
              promise |-> Len(fs) + 1]

\* The body of the async generator's loop for one element, up to its yield
\* (lines 212-221): the key, the lookup, and on a miss the call of fn, the
\* Promise and cache.set, all before the generator awaits anything.
AsyncBody(c, fs, item, i, sel, kind) ==
    LET key == KeyOf(item, sel)
    IN  IF key \in DOMAIN c
        THEN [called |-> FALSE, cache |-> c, futures |-> fs, promise |-> c[key]]
        ELSE [called |-> TRUE, cache |-> CacheSet(c, key, Len(fs) + 1),
              futures |-> Append(fs, PromiseResolve(item, i, key, kind)),
              promise |-> Len(fs) + 1]

\* memoizedIterable[Symbol.asyncIterator](): a new async generator,
\* suspended at its start
AsyncIterate(t) ==
    /\ atrav[t].st = "none"
    /\ atrav' = [atrav EXCEPT ![t].st = "start"]
    /\ UNCHANGED <<ainput, auseSel, fnKind, acache, futures, ainvoked, notAsync>>

\* The consumer calls next(): the generator resumes and `for await` asks the
\* source for its next element, which it awaits
AsyncPull(t) ==
    /\ atrav[t].st \in {"start", "suspended"}
    /\ atrav' = [atrav EXCEPT ![t].st = "fetch"]
    /\ UNCHANGED <<ainput, auseSel, fnKind, acache, futures, ainvoked, notAsync>>

\* A memoizeAsync whose traversals read the source through one iterator:
\* an element a traversal took is gone for the others
AsyncStepSharedSource(t) ==
    /\ atrav[t].st = "fetch"
    /\ LET reached == CHOOSE n \in 0..Len(ainput) :
                          /\ \A u \in DOMAIN atrav : atrav[u].pos <= n
                          /\ \E u \in DOMAIN atrav : atrav[u].pos = n
       IN  IF reached = Len(ainput)
           THEN /\ atrav' = [atrav EXCEPT ![t].st = "done"]
                /\ UNCHANGED <<acache, futures, ainvoked>>
           ELSE LET i == reached + 1
                    r == AsyncBody(acache, futures, ainput[i], i, auseSel, fnKind)
                IN  /\ acache' = r.cache
                    /\ futures' = r.futures
                    /\ ainvoked' = [ainvoked EXCEPT ![i] = IF r.called THEN @ + 1 ELSE @]
                    /\ atrav' = [atrav EXCEPT ![t] =
                           [st |-> "await", pos |-> i, out |-> @.out,
                            got |-> Append(@.got, r.promise), wait |-> r.promise]]
    /\ UNCHANGED <<ainput, auseSel, fnKind, notAsync>>

\* The element arrives and the loop body runs to `yield promise`, where the
\* generator awaits the Promise; or the source is exhausted and the
\* generator returns
AsyncStep(t) ==
    /\ atrav[t].st = "fetch"
    /\ IF atrav[t].pos = Len(ainput)
       THEN /\ atrav' = [atrav EXCEPT ![t].st = "done"]
            /\ UNCHANGED <<acache, futures, ainvoked>>
       ELSE LET i == atrav[t].pos + 1
                r == AsyncBody(acache, futures, ainput[i], i, auseSel, fnKind)
            IN  /\ acache' = r.cache
                /\ futures' = r.futures
                /\ ainvoked' = [ainvoked EXCEPT ![i] = IF r.called THEN @ + 1 ELSE @]
                /\ atrav' = [atrav EXCEPT ![t] =
                       [st |-> "await", pos |-> i, out |-> @.out,
                        got |-> Append(@.got, r.promise), wait |-> r.promise]]
    /\ UNCHANGED <<ainput, auseSel, fnKind, notAsync>>

\* The asynchronous computation of fn ends: its Promise is fulfilled with
\* fn's result, or rejected
FutureSettle(f) ==
    /\ futures[f].status = "pending"
    /\ futures' = [futures EXCEPT ![f].status =
           IF fnRejects(ainput[futures[f].pos], fnKind) THEN "rejected" ELSE "resolved"]
    /\ UNCHANGED <<ainput, auseSel, fnKind, acache, ainvoked, atrav, notAsync>>

\* A generator that hands the Promise on without awaiting it
AsyncDeliverNoAwait(t) ==
    /\ atrav[t].st = "await"
    /\ atrav' = [atrav EXCEPT ![t] =
           IF futures[@.wait].status = "rejected"
           THEN [@ EXCEPT !.st = "failed", !.wait = 0]
           ELSE [@ EXCEPT !.st = "suspended", !.wait = 0,
                          !.out = Append(@, fn(ainput[futures[atrav[t].wait].pos]))]]
    /\ UNCHANGED <<ainput, auseSel, fnKind, acache, futures, ainvoked, notAsync>>

\* The awaited Promise has settled: the generator yields its value to the
\* consumer and suspends, or the rejection is thrown at the yield and
\* finishes the generator
AsyncDeliver(t) ==
    /\ atrav[t].st = "await"
    /\ futures[atrav[t].wait].status # "pending"
    /\ atrav' = [atrav EXCEPT ![t] =
           IF futures[@.wait].status = "rejected"
           THEN [@ EXCEPT !.st = "failed", !.wait = 0]
           ELSE [@ EXCEPT !.st = "suspended", !.wait = 0,
                          !.out = Append(@, fn(ainput[futures[atrav[t].wait].pos]))]]
    /\ UNCHANGED <<ainput, auseSel, fnKind, acache, futures, ainvoked, notAsync>>

NextAsync ==
    \/ \E t \in DOMAIN atrav : AsyncIterate(t)
    \/ \E t \in DOMAIN atrav : AsyncPull(t)
    \/ \E t \in DOMAIN atrav : AsyncStep(t)
    \/ \E t \in DOMAIN atrav : AsyncDeliver(t)
    \/ \E f \in DOMAIN futures : FutureSettle(f)

----------------------------------------------------------------------------
(* The dual pull protocol: new Enumerable(iterable), pulled synchronously   *)
(* through [Symbol.iterator]() (for-of, toArray) or asynchronously through  *)
(* [Symbol.asyncIterator]() (for await) or toArrayAsync().                   *)
(* The source is an array (synchronous, every iterator starts at its first  *)
(* element), a generator (synchronous, one-shot: all iterators share its    *)
(* position) or an async generator (asynchronous only, one-shot).           *)

SourceKinds == {"array", "generator", "asyncGenerator"}

\* iterable[Symbol.iterator] is defined
HasIterator(kind) == kind \in {"array", "generator"}

\* iterable[Symbol.asyncIterator] is defined
HasAsyncIterator(kind) == kind = "asyncGenerator"

NoError == [name |-> "", message |-> ""]

\* new Error("This enumerable is async — use for await or toArrayAsync()")
ModeMismatch ==
    [name |-> "Error",
     message |-> "This enumerable is async - use for await or toArrayAsync()"]

\* A [Symbol.iterator]() without the check: for a source that has no
\* synchronous iterator it hands out an iterator over nothing
SymbolIteratorNoThrow(kind) == [ok |-> TRUE, err |-> NoError]

\* [Symbol.iterator]() (lines 48-55): the source's own iterator, or the
\* error when the source has none
SymbolIterator(kind) ==
    IF HasIterator(kind)
    THEN [ok |-> TRUE, err |-> NoError]
    ELSE [ok |-> FALSE, err |-> ModeMismatch]

\* A [Symbol.asyncIterator]() whose branch for synchronous sources is missing
SymbolAsyncIteratorNoSync(kind) ==
    IF HasAsyncIterator(kind) THEN "forAwait" ELSE "nothing"

\* [Symbol.asyncIterator]() (lines 57-67): the loop the async generator runs
SymbolAsyncIterator(kind) ==
    IF HasAsyncIterator(kind) THEN "forAwait" ELSE "forOf"

\* Array.fromAsync(this.iterable) (line 737): the protocol it reads the
\* source with: the asynchronous one when there is one, else the
\* synchronous one, else the indices of an array-like
ArrayFromAsync(kind) ==
    IF HasAsyncIterator(kind) THEN "forAwait"
    ELSE IF HasIterator(kind) THEN "forOf"
    ELSE "arrayLike"

\* the failure of a pull whose await met a Promise rejected with v
Rejection(v) == [name |-> "rejection", reason |-> v]

\* the elements of a source: a number, or a thenable: Promise.resolve(1),
\* Promise.reject(1)
Plain(v) == [kind |-> "value", v |-> v]

FulfilledPromise(v) == [kind |-> "fulfilled", v |-> v]

RejectedPromise(v) == [kind |-> "rejected", v |-> v]

PlainElems == { Plain(v) : v \in 1..PMaxVal }

Thenables == {FulfilledPromise(1), RejectedPromise(1)}

\* what a source of the kind can produce: an async generator awaits what
\* it yields, so its consumers never see a thenable
SourceElems(kind) == IF kind = "asyncGenerator" THEN PlainElems ELSE PlainElems \cup Thenables

\* pend holds the result of a next() the consumer called and has not yet
\* received
NoCons ==
    [mode |-> "none", st |-> "none", pos |-> 0, out |-> <<>>, err |-> NoError,
     pend |-> <<>>]

\* A generator source that is not executing. busy is the consumer whose
\* element an async generator is yielding (it is in the await of that
\* yield), 0 when it is suspended or completed; queue holds the consumers
\* whose next() found the async generator executing, oldest first; closed
\* is TRUE once return() was called on a synchronous generator.
NoGen == [busy |-> 0, queue |-> <<>>, closed |-> FALSE]

InitPull ==
    /\ skind \in SourceKinds
    /\ sitems \in SeqsUpTo(SourceElems(skind), PMaxLen)
    /\ spos = 0
    /\ sgen = NoGen
    /\ cons = [c \in 1..NCons |-> NoCons]

IdlePull ==
    /\ skind = "array"
    /\ sitems = <<>>
    /\ spos = 0
    /\ sgen = NoGen
    /\ cons = <<>>

\* the source and its consumers, as the operators below transform them
Here == [cons |-> cons, spos |-> spos, sgen |-> sgen]

Become(s) == cons' = s.cons /\ spos' = s.spos /\ sgen' = s.sgen

\* where a consumer at position pos of s reads next: its own position in
\* an array, the shared position of a one-shot source, the end of a
\* generator that was closed
ReadAt(s, pos) ==
    IF skind = "array" THEN pos
    ELSE IF s.sgen.closed THEN Len(sitems)
    ELSE s.spos

ReadPos(c) == ReadAt(Here, cons[c].pos)

\* Consumer c reads one element through the loop `how`, or finds the
\* source exhausted; the loop "nothing" and the loop over an array-like
\* without length find no element
ReadOne(c, how) ==
    IF how \in {"forAwait", "forOf"} /\ ReadPos(c) < Len(sitems)
    THEN /\ cons' = [cons EXCEPT ![c].pos = ReadPos(c) + 1,
                                 ![c].st = "iter",
                                 ![c].out = Append(@, sitems[ReadPos(c) + 1])]
         /\ spos' = IF skind = "array" THEN spos ELSE spos + 1
    ELSE /\ cons' = [cons EXCEPT ![c].st = "done"]
         /\ spos' = spos

\* the result of a next(): the element found at position at, or the end;
\* threw is set when the await of a rejected element has thrown
NextResult(at) ==
    IF at < Len(sitems)
    THEN <<[done |-> FALSE, pos |-> at + 1, v |-> sitems[at + 1], threw |-> FALSE]>>
    ELSE <<[done |-> TRUE, pos |-> 0, v |-> Plain(0), threw |-> FALSE]>>

\* The body of the async generator source runs for the request of consumer
\* c: up to its next yield, in whose await it stays, or to its end, where
\* the generator completes and every request still queued is answered with
\* the end as well.
SourceRun(s, c) ==
    IF s.spos < Len(sitems)
    THEN [cons |-> [s.cons EXCEPT ![c].pend = NextResult(s.spos)],
          spos |-> s.spos + 1,
          sgen |-> [s.sgen EXCEPT !.busy = c]]
    ELSE [cons |-> [d \in DOMAIN s.cons |->
                       IF d = c \/ d \in Range(s.sgen.queue)
                       THEN [s.cons[d] EXCEPT !.pend = NextResult(s.spos)]
                       ELSE s.cons[d]],
          spos |-> s.spos,
          sgen |-> NoGen]

\* The await of the source's yield is over: the request it yielded for is
\* answered, and the generator goes on with the oldest queued request or
\* suspends at the yield.
SourceResumed(s) ==
    IF s.sgen.busy = 0
    THEN s
    ELSE IF s.sgen.queue = <<>>
         THEN [s EXCEPT !.sgen = NoGen]
         ELSE SourceRun([s EXCEPT !.sgen = [NoGen EXCEPT !.queue = Tail(s.sgen.queue)]],
                        Head(s.sgen.queue))

\* The loop `how` run for consumer c asks the source for its next element.
\* A synchronous source is read in the call, and so is an async generator
\* that is suspended; an async generator that is executing only queues the
\* request. What was read reaches the consumer after the awaits that follow
\* (the await of `yield` in an async generator, the await of for await and
\* of Array.fromAsync).
ReadAhead(s, c, how) ==
    IF how = "forAwait"
    THEN IF s.sgen.busy # 0
         THEN [s EXCEPT !.sgen.queue = Append(@, c)]
         ELSE SourceRun(s, c)
    ELSE LET at == ReadAt(s, s.cons[c].pos)
         IN  IF how = "forOf"
             THEN [s EXCEPT !.cons[c].pend = NextResult(at),
                            !.spos = IF skind = "array" \/ at >= Len(sitems)
                                     THEN @ ELSE @ + 1]
             ELSE [s EXCEPT !.cons[c].pend = NextResult(Len(sitems))]

\* The consumer with the result it waited for: the end of the sequence, or
\* the awaited element at the end of what it holds (a number as it is, a
\* fulfilled Promise as its value), or the failure a rejected Promise
\* among the elements brings
Received(rec) ==
    LET r == rec.pend[1]
    IN  IF r.done
        THEN [rec EXCEPT !.st = "done", !.pend = <<>>]
        ELSE IF r.v.kind = "rejected"
        THEN [rec EXCEPT !.st = "failed", !.err = Rejection(r.v.v),
                         !.pos = r.pos, !.pend = <<>>]
        ELSE [rec EXCEPT !.pos = r.pos, !.out = Append(@, Plain(r.v.v)), !.pend = <<>>]

\* the awaited result in pend is a rejected Promise whose await has not
\* thrown yet
AwaitsRejected(rec) ==
    /\ rec.pend # <<>>
    /\ ~rec.pend[1].done
    /\ rec.pend[1].v.kind = "rejected"
    /\ ~rec.pend[1].threw

\* the result in pend can reach the consumer: the source is not in the
\* await of the yield that produced it, and no await of it has yet to throw
Settled(c) ==
    /\ cons[c].pend # <<>>
    /\ sgen.busy # c
    /\ ~AwaitsRejected(cons[c])

\* A synchronous consumer (for-of, toArray's spread) asks for the iterator:
\* this[Symbol.iterator]()
PullSyncIterate(c) ==
    /\ cons[c].st = "none"
    /\ LET r == SymbolIterator(skind)
       IN  cons' = [cons EXCEPT ![c].mode = "sync",
                                ![c].st = IF r.ok THEN "iter" ELSE "failed",
                                ![c].err = r.err]
    /\ UNCHANGED <<skind, sitems, spos, sgen, notPull>>

\* next() of the source's synchronous iterator
PullSyncNext(c) ==
    /\ cons[c].mode = "sync" /\ cons[c].st = "iter"
    /\ ReadOne(c, IF HasIterator(skind) THEN "forOf" ELSE "nothing")
    /\ UNCHANGED <<skind, sitems, sgen, notPull>>

\* An asynchronous consumer (for await) asks for the async iterator:
\* this[Symbol.asyncIterator](), an async generator suspended at its start
PullAsyncIterate(c) ==
    /\ cons[c].st = "none"
    /\ cons' = [cons EXCEPT ![c].mode = "async", ![c].st = "iter"]
    /\ UNCHANGED <<skind, sitems, spos, sgen, notPull>>

\* The consumer calls next() of that async generator: the generator runs
\* to its first await, which comes after its loop has asked the source
\* for the next element
PullAsyncNext(c) ==
    /\ cons[c].mode = "async" /\ cons[c].st = "iter"
    /\ cons[c].pend = <<>>
    /\ c \notin Range(sgen.queue)
    /\ Become(ReadAhead(Here, c, SymbolAsyncIterator(skind)))
    /\ UNCHANGED <<skind, sitems, notPull>>

\* The await of `yield item` (line 64) throws for a rejected Promise: the
\* for-of loop leaves and calls return() on the source's iterator, which
\* closes a generator and is absent on an array iterator
PullAsyncThrow(c) ==
    /\ cons[c].mode = "async"
    /\ AwaitsRejected(cons[c])
    /\ cons' = [cons EXCEPT ![c].pend[1].threw = TRUE]
    /\ sgen' = [sgen EXCEPT !.closed = @ \/ skind = "generator"]
    /\ UNCHANGED <<skind, sitems, spos, notPull>>

\* The Promise of that next() settles and the consumer receives its result
PullAsyncResult(c) ==
    /\ cons[c].mode = "async"
    /\ Settled(c)
    /\ cons' = [cons EXCEPT ![c] = Received(@)]
    /\ UNCHANGED <<skind, sitems, spos, sgen, notPull>>

\* toArrayAsync(): Array.fromAsync(this.iterable) starts on the source and
\* asks it for the first element before its first await
ToArrayAsyncStart(c) ==
    /\ cons[c].st = "none"
    /\ Become(ReadAhead([Here EXCEPT !.cons[c].mode = "toArrayAsync",
                                     !.cons[c].st = "iter"],
                        c, ArrayFromAsync(skind)))
    /\ UNCHANGED <<skind, sitems, notPull>>

\* Array.fromAsync reads a synchronous source through an async-from-sync
\* iterator, which awaits each element: for a rejected Promise it rejects
\* the result, and closes the source's iterator where the engine follows
\* ECMAScript 2025 (earlier engines leave it open)
ToArrayAsyncThrow(c, closes) ==
    /\ cons[c].mode = "toArrayAsync"
    /\ AwaitsRejected(cons[c])
    /\ cons' = [cons EXCEPT ![c].pend[1].threw = TRUE]
    /\ sgen' = [sgen EXCEPT !.closed = @ \/ (closes /\ skind = "generator")]
    /\ UNCHANGED <<skind, sitems, spos, notPull>>

\* Array.fromAsync resumes with the result it awaited: it appends the
\* element and asks the source for the next one, or it returns the array,
\* or it rejects
ToArrayAsyncNext(c) ==
    /\ cons[c].mode = "toArrayAsync" /\ cons[c].st = "iter"
    /\ Settled(c)
    /\ LET s == [Here EXCEPT !.cons[c] = Received(@)]
       IN  Become(IF s.cons[c].st = "iter"
                  THEN ReadAhead(s, c, ArrayFromAsync(skind))
                  ELSE s)
    /\ UNCHANGED <<skind, sitems, notPull>>

\* A step of the event loop in which the await of the async generator
\* source's yield ends
SourceResume ==
    /\ sgen.busy # 0
    /\ Become(SourceResumed(Here))
    /\ UNCHANGED <<skind, sitems, notPull>>

NextPull ==
    \/ \E c \in DOMAIN cons : PullSyncIterate(c)
    \/ \E c \in DOMAIN cons : PullSyncNext(c)
    \/ \E c \in DOMAIN cons : PullAsyncIterate(c)
    \/ \E c \in DOMAIN cons : PullAsyncNext(c)
    \/ \E c \in DOMAIN cons : PullAsyncThrow(c)
    \/ \E c \in DOMAIN cons : PullAsyncResult(c)
    \/ \E c \in DOMAIN cons : ToArrayAsyncStart(c)
    \/ \E c \in DOMAIN cons, closes \in BOOLEAN : ToArrayAsyncThrow(c, closes)
    \/ \E c \in DOMAIN cons : ToArrayAsyncNext(c)
    \/ SourceResume

----------------------------------------------------------------------------
(* The ordering engine: Enumerable.from(oinput).orderBy(selector) and       *)
(* .orderByDescending(selector), materialized by toArray().                 *)
(* The keys are JavaScript numbers, NaN among them, compared by the         *)
(* operators the code uses: <, === and >, all three false when an operand   *)
(* is NaN.                                                                   *)

\* the number n
Num(n) == [nan |-> FALSE, n |-> n]

\* the number NaN
NaN == [nan |-> TRUE, n |-> 0]

JsNumbers == { Num(n) : n \in 1..OMaxKey } \cup {NaN}

\* a < b on numbers
JsLess(a, b) == ~a.nan /\ ~b.nan /\ a.n < b.n

\* a === b on numbers
JsStrictEquals(a, b) == ~a.nan /\ ~b.nan /\ a.n = b.n

\* a > b on numbers
JsGreater(a, b) == ~a.nan /\ ~b.nan /\ a.n > b.n

\* the elements: objects { key, tag }
OElems == [key : JsNumbers, tag : 1..OMaxTag]

\* the selector handed to orderBy: x => x.key
selector(x) == x.key

\* an ordering that splits around the pivot once and orders no part
OrderByNoRecursion(arr) ==
    IF Len(arr) <= 1
    THEN arr
    ELSE LET pivot == selector(arr[Len(arr)])
             left == SelectSeq(arr, LAMBDA x : JsLess(selector(x), pivot))
             equal == SelectSeq(arr, LAMBDA x : JsStrictEquals(selector(x), pivot))
             right == SelectSeq(arr, LAMBDA x : JsGreater(selector(x), pivot))
         IN  left \o equal \o right

RECURSIVE OrderByUnstable(_)
\* an ordering that yields the elements equal to the pivot last first
OrderByUnstable(arr) ==
    IF Len(arr) <= 1
    THEN arr
    ELSE LET pivot == selector(arr[Len(arr)])
             left == SelectSeq(arr, LAMBDA x : JsLess(selector(x), pivot))
             equal == SelectSeq(arr, LAMBDA x : JsStrictEquals(selector(x), pivot))
             right == SelectSeq(arr, LAMBDA x : JsGreater(selector(x), pivot))
         IN  OrderByUnstable(left)
               \o [i \in 1..Len(equal) |-> equal[Len(equal) + 1 - i]]
               \o OrderByUnstable(right)

RECURSIVE OrderBy(_)
\* The generator of orderBy (lines 544-559), drained: the array as it is
\* when it has at most one element; else the elements below the key of
\* the last element, ordered, then those equal to it, then those above it,
\* ordered.
OrderBy(arr) ==
    IF Len(arr) <= 1
    THEN arr
    ELSE LET pivot == selector(arr[Len(arr)])
             left == SelectSeq(arr, LAMBDA x : JsLess(selector(x), pivot))
             equal == SelectSeq(arr, LAMBDA x : JsStrictEquals(selector(x), pivot))
             right == SelectSeq(arr, LAMBDA x : JsGreater(selector(x), pivot))
         IN  OrderBy(left) \o equal \o OrderBy(right)

RECURSIVE OrderByDescending(_)
\* The generator of orderByDescending (lines 578-593), drained: as orderBy,
\* with the elements above the pivot first and those below it last.
OrderByDescending(arr) ==
    IF Len(arr) <= 1
    THEN arr
    ELSE LET pivot == selector(arr[Len(arr)])
             left == SelectSeq(arr, LAMBDA x : JsGreater(selector(x), pivot))
             equal == SelectSeq(arr, LAMBDA x : JsStrictEquals(selector(x), pivot))
             right == SelectSeq(arr, LAMBDA x : JsLess(selector(x), pivot))
         IN  OrderByDescending(left) \o equal \o OrderByDescending(right)

InitOrder ==
    /\ oinput \in SeqsUpTo(OElems, OMaxLen)
    /\ odir = "none"
    /\ oout = <<>>
    /\ ostack = <<>>

IdleOrder ==
    /\ oinput = <<>>
    /\ odir = "idle"
    /\ oout = <<>>
    /\ ostack = <<>>

\* Enumerable.from(oinput).orderBy(selector).toArray()
DoOrderBy ==
    /\ odir = "none"
    /\ odir' = "asc"
    /\ oout' = OrderBy(oinput)
    /\ UNCHANGED <<oinput, ostack, notOrder>>

\* Enumerable.from(oinput).orderByDescending(selector).toArray()
DoOrderByDescending ==
    /\ odir = "none"
    /\ odir' = "desc"
    /\ oout' = OrderByDescending(oinput)
    /\ UNCHANGED <<oinput, ostack, notOrder>>

NextOrder ==
    \/ DoOrderBy
    \/ DoOrderByDescending

----------------------------------------------------------------------------
(* The recursion of the ordering engine, one call at a time: ostack holds *)
(* the generators that a yield* has yet to run and the equal buckets that *)
(* a yield* has yet to hand out, in output order.                         *)

\* new Enumerable(arr).orderBy(selector), called at recursion depth d by a
\* generator whose array has n elements
Call(arr, d, n) == [k |-> "call", a |-> arr, d |-> d, n |-> n]

\* yield* equal
Yield(arr) == [k |-> "yield", a |-> arr, d |-> 0, n |-> 0]

\* a partition whose first bucket keeps the elements equal to the pivot
SortFramesKeepPivot(arr, d, desc) ==
    LET pivot == selector(arr[Len(arr)])
        below == SelectSeq(arr, LAMBDA x : JsLess(selector(x), pivot) \/ JsStrictEquals(selector(x), pivot))
        equal == SelectSeq(arr, LAMBDA x : JsStrictEquals(selector(x), pivot))
        above == SelectSeq(arr, LAMBDA x : JsGreater(selector(x), pivot))
    IN  IF desc
        THEN <<Call(above, d + 1, Len(arr)), Yield(equal), Call(below, d + 1, Len(arr))>>
        ELSE <<Call(below, d + 1, Len(arr)), Yield(equal), Call(above, d + 1, Len(arr))>>

\* what a generator over more than one element does (lines 551-558 and
\* 585-592): the three filters around the key of the last element, then
\* the nested call for the first bucket, the equal bucket, the nested call
\* for the last bucket
SortFrames(arr, d, desc) ==
    LET pivot == selector(arr[Len(arr)])
        below == SelectSeq(arr, LAMBDA x : JsLess(selector(x), pivot))
        equal == SelectSeq(arr, LAMBDA x : JsStrictEquals(selector(x), pivot))
        above == SelectSeq(arr, LAMBDA x : JsGreater(selector(x), pivot))
    IN  IF desc
        THEN <<Call(above, d + 1, Len(arr)), Yield(equal), Call(below, d + 1, Len(arr))>>
        ELSE <<Call(below, d + 1, Len(arr)), Yield(equal), Call(above, d + 1, Len(arr))>>

\* the arrays whose ordering is followed call by call
SortElems == [key : JsNumbers, tag : {1}]

InitSort ==
    /\ oinput \in SeqsUpTo(SortElems, OMaxLen)
    /\ odir = "none"
    /\ oout = <<>>
    /\ ostack = <<>>

\* toArray() of Enumerable.from(oinput).orderBy(selector), or of
\* orderByDescending, begins: the outermost generator
SortStart(dir) ==
    /\ odir = "none"
    /\ odir' = dir
    /\ ostack' = <<Call(oinput, 0, 0)>>
    /\ UNCHANGED <<oinput, oout, notOrder>>

\* The next generator or equal bucket in output order runs. The depth is
\* followed up to one call beyond the length of the input.
SortStep ==
    /\ odir \in {"ascending", "descending"}
    /\ ostack # <<>>
    /\ LET f == Head(ostack)
       IN  /\ f.d <= Len(oinput)
           /\ IF f.k = "yield" \/ Len(f.a) <= 1
              THEN /\ oout' = oout \o f.a
                   /\ ostack' = Tail(ostack)
              ELSE /\ oout' = oout
                   /\ ostack' = SortFrames(f.a, f.d, odir = "descending") \o Tail(ostack)
    /\ UNCHANGED <<oinput, odir, notOrder>>

\* The outermost generator returns
SortEnd ==
    /\ odir \in {"ascending", "descending"}
    /\ ostack = <<>>
    /\ odir' = IF odir = "ascending" THEN "asc" ELSE "desc"
    /\ UNCHANGED <<oinput, oout, ostack, notOrder>>

NextSort ==
    \/ \E dir \in {"ascending", "descending"} : SortStart(dir)
    \/ SortStep
    \/ SortEnd

----------------------------------------------------------------------------
(* The operator pipeline, pulled synchronously.                             *)
(*                                                                          *)
(* The heap h holds the Sequence objects (h.objs), the iterators and        *)
(* generators made so far (h.its), the invocations of caller-supplied       *)
(* functions in order (h.log) and the number of elements read from the      *)
(* source arrays (h.pulled). Object 1 is Enumerable.from(src), object 2 is  *)
(* Enumerable.from(other), the operand of concat, union and intersect; the  *)
(* stages follow, each over the object built before it.                     *)
(* A stage built on a generator function holds the one generator its        *)
(* constructor call made (`new Enumerable(generator())`): every traversal   *)
(* of the stage is that generator. An array, and the iterable of memoize,   *)
(* make a new iterator per traversal.                                       *)

\* the operators whose Sequence wraps a generator made at construction
GenOps == {"select", "where", "take", "distinct", "distinctBy", "orderBy",
           "orderByDescending", "reverse", "concat", "append", "prepend",
           "union", "intersect"}

StageOps == GenOps \cup {"memoize", "memoizeAsync"}

\* the caller-supplied functions of the pipeline, on numbers
mapper(x) == x + 1
predicate(x) == x % 2 = 1
keyOfNumber(x) == x % 2
square(x) == x * x

\* JSON.stringify of a number: its decimal text
NumberToJSON(n) == <<"num", n>>

\* a generator suspended at its start, or an array iterator before the
\* first element, of object o
NewIter(o) ==
    [obj |-> o, st |-> "start", up |-> 0, i |-> 0, seen |-> {}, buf |-> <<>>,
     phase |-> 0]

\* the object the next stage is built over
LastObj(h) == IF Len(h.objs) = 2 THEN 1 ELSE Len(h.objs)

\* Enumerable.from(iterable) of an iterable of the caller whose iterators
\* give the elements of src over and over and never end
Cycle(src) == [op |-> "cycle", up |-> 0, arg |-> src, gen |-> 0, cache |-> <<>>]

\* Enumerable.from(src) and Enumerable.from(other)
NewHeap(src, other) ==
    [objs |-> << [op |-> "from", up |-> 0, arg |-> src, gen |-> 0, cache |-> <<>>],
                 [op |-> "from", up |-> 0, arg |-> other, gen |-> 0, cache |-> <<>>] >>,
     its |-> <<>>, log |-> <<>>, pulled |-> 0, bad |-> {}]

Ret(h, kind, v) == [h |-> h, kind |-> kind, v |-> v]

SetIt(h, it, rec) == [h EXCEPT !.its[it] = rec]

Logged(h, name, x) == [h EXCEPT !.log = Append(@, <<name, x>>)]

\* the functions the caller hands to the operators throw on the values of
\* h.bad: throw new Error("caller")
CallerError == [name |-> "Error", message |-> "caller"]
Throws(h, x) == x \in h.bad

Finish(h, it) == [h EXCEPT !.its[it].st = "done"]

\* a Sequence whose every traversal starts a generator of its own
GetIterRestarts(h, o) ==
    IF h.objs[o].op = "memoizeAsync"
    THEN [h |-> h, it |-> 0, ok |-> FALSE]
    ELSE [h |-> [h EXCEPT !.its = Append(@, NewIter(o))],
          it |-> Len(h.its) + 1, ok |-> TRUE]

\* this[Symbol.iterator]() of object o (lines 48-55): the iterator of its
\* iterable, or the ModeMismatch error when the iterable has none
GetIter(h, o) ==
    LET op == h.objs[o].op
    IN  IF op = "memoizeAsync"
        THEN [h |-> h, it |-> 0, ok |-> FALSE]
        ELSE IF op \in {"from", "cycle", "memoize"}
        THEN [h |-> [h EXCEPT !.its = Append(@, NewIter(o))],
              it |-> Len(h.its) + 1, ok |-> TRUE]
        ELSE [h |-> h, it |-> h.objs[o].gen, ok |-> TRUE]

\* the work list of an ordering generator: arrays still to be ordered and
\* elements ready to be yielded, in output order
SortItem(arr) == [k |-> "sort", a |-> arr]
EmitItem(arr) == [k |-> "emit", a |-> arr]

\* the calls of selector one partition step makes: on the pivot, then on
\* every element for each of the three filters
RECURSIVE LogAll(_, _, _)
LogAll(h, name, arr) ==
    IF arr = <<>> THEN h
    ELSE IF Throws(h, Head(arr)) THEN Logged(h, name, Head(arr))
    ELSE LogAll(Logged(h, name, Head(arr)), name, Tail(arr))

Reverse(s) == [i \in 1..Len(s) |-> s[Len(s) + 1 - i]]

\* a select that reads its whole upstream into an array first
MaterializesAlsoSelect(op) == op \in {"orderBy", "orderByDescending", "reverse", "select"}

\* the operators whose generator reads its whole upstream into an array
\* before its first yield (lines 545, 579, 612); every other generator
\* yields from inside its for-of loop
Materializes(op) == op \in {"orderBy", "orderByDescending", "reverse"}

RECURSIVE IteratorReturn(_, _)
\* A for-of loop that is left by a return or by an exception of its body
\* closes its iterator: it calls return() where there is one. An array
\* iterator has none. A generator returns where it is suspended; when
\* that is a yield inside its own for-of loop, leaving that loop closes
\* the iterator of its upstream in turn.
IteratorReturn(h, it) ==
    IF it = 0 THEN h
    ELSE LET me == h.its[it]
         IN  IF h.objs[me.obj].op \in {"from", "cycle"} \/ me.st = "done" THEN h
             ELSE IF me.st = "start" THEN Finish(h, it)
             ELSE IteratorReturn(Finish(h, it), me.up)

RECURSIVE Next(_, _), Drain(_, _, _), OrderNext(_, _)

\* [...iterator]: next() until done; the elements, or the failure
Drain(h, it, acc) ==
    LET r == Next(h, it)
    IN  IF r.kind = "value" THEN Drain(r.h, it, Append(acc, r.v))
        ELSE [h |-> r.h, arr |-> acc, ok |-> r.kind = "done", v |-> r.v]

\* One next() of an ordering generator whose array is materialized: the
\* head of the work list is yielded, or partitioned around the key of its
\* last element (lines 547-558, 581-592); the nested generators of the two
\* outer buckets start only when the yield* reaches them.
OrderNext(h, it) ==
    LET me == h.its[it]
        desc == h.objs[me.obj].op = "orderByDescending"
    IN  IF me.buf = <<>> THEN Ret(Finish(h, it), "done", 0)
        ELSE LET item == Head(me.buf)
                 rest == Tail(me.buf)
             IN  IF item.a = <<>>
                 THEN OrderNext(SetIt(h, it, [me EXCEPT !.buf = rest]), it)
                 ELSE IF item.k = "emit"
                 THEN Ret(SetIt(h, it, [me EXCEPT !.st = "suspended",
                                           !.buf = <<EmitItem(Tail(item.a))>> \o rest]),
                          "value", Head(item.a))
                 ELSE IF Len(item.a) <= 1
                 THEN OrderNext(SetIt(h, it, [me EXCEPT !.buf = <<EmitItem(item.a)>> \o rest]), it)
                 ELSE LET arr == item.a
                          pivot == Num(arr[Len(arr)])
                          below == SelectSeq(arr, LAMBDA x : JsLess(Num(x), pivot))
                          equal == SelectSeq(arr, LAMBDA x : JsStrictEquals(Num(x), pivot))
                          above == SelectSeq(arr, LAMBDA x : JsGreater(Num(x), pivot))
                          h1 == LogAll(h, "selector", <<arr[Len(arr)]>> \o arr \o arr \o arr)
                          parts == IF desc
                                   THEN <<SortItem(above), EmitItem(equal), SortItem(below)>>
                                   ELSE <<SortItem(below), EmitItem(equal), SortItem(above)>>
                      IN  IF \E x \in Range(arr) : Throws(h, x)
                          THEN \* a call of selector throws and leaves the generator
                               Ret(Finish(h1, it), "throw", CallerError)
                          ELSE OrderNext(SetIt(h1, it, [me EXCEPT !.buf = parts \o rest]), it)

\* the loop body yields x
Emit(h, x) == [h |-> h, yield |-> TRUE, v |-> x, threw |-> FALSE]

\* the loop body yields nothing for this element
Skip(h) == [h |-> h, yield |-> FALSE, v |-> 0, threw |-> FALSE]

\* the function called in the loop body throws
Throw(h) == [h |-> h, yield |-> FALSE, v |-> CallerError, threw |-> TRUE]

\* a where that skips the element its predicate fails on
WhereBodyCatches(h, it, v) ==
    IF Throws(h, v) THEN Skip(Logged(h, "predicate", v))
    ELSE IF predicate(v) THEN Emit(Logged(h, "predicate", v), v)
    ELSE Skip(Logged(h, "predicate", v))

\* the loop body of where (lines 269-271)
WhereBody(h, it, v) ==
    IF Throws(h, v) THEN Throw(Logged(h, "predicate", v))
    ELSE IF predicate(v) THEN Emit(Logged(h, "predicate", v), v)
    ELSE Skip(Logged(h, "predicate", v))

\* a take whose counter starts at 0
TakeBodyFromZero(h, it, v) ==
    LET me == h.its[it]
        o == h.objs[me.obj]
    IN  IF me.i <= o.arg
        THEN Emit(SetIt(h, it, [me EXCEPT !.i = @ + 1]), v)
        ELSE Skip(h)

\* the loop body of take (lines 455-458); me.i counts the yields, the i
\* of the code is one more
TakeBody(h, it, v) ==
    LET me == h.its[it]
        o == h.objs[me.obj]
    IN  IF me.i + 1 <= o.arg
        THEN Emit(SetIt(h, it, [me EXCEPT !.i = @ + 1]), v)
        ELSE Skip(h)

\* the loop body of distinct (lines 483-488)
DistinctBody(h, it, v) ==
    LET me == h.its[it]
    IN  IF v \notin me.seen
        THEN Emit(SetIt(h, it, [me EXCEPT !.seen = @ \cup {v}]), v)
        ELSE Skip(h)

\* a distinctBy that never records the key it has seen
DistinctByBodyNoAdd(h, it, v) ==
    LET me == h.its[it]
        key == keyOfNumber(v)
        h1 == Logged(h, "keySelector", v)
    IN  IF key \notin me.seen THEN Emit(h1, v) ELSE Skip(h1)

\* the loop body of distinctBy (lines 512-518)
DistinctByBody(h, it, v) ==
    LET me == h.its[it]
        key == keyOfNumber(v)
        h1 == Logged(h, "keySelector", v)
    IN  IF Throws(h, v) THEN Throw(h1)
        ELSE IF key \notin me.seen
        THEN Emit(SetIt(h1, it, [me EXCEPT !.seen = @ \cup {key}]), v)
        ELSE Skip(h1)

\* a union whose second loop does not look into the seen-set
UnionBodySecondUnchecked(h, it, v) ==
    LET me == h.its[it]
        o == h.objs[me.obj]
        key == IF o.arg THEN keyOfNumber(v) ELSE v
        h1 == IF o.arg THEN Logged(h, "keySelector", v) ELSE h
    IN  IF me.phase = 1 \/ key \notin me.seen
        THEN Emit(SetIt(h1, it, [me EXCEPT !.seen = @ \cup {key}]), v)
        ELSE Skip(h1)

\* the body of both loops of union (lines 832-838 and 839-845)
UnionBody(h, it, v) ==
    LET me == h.its[it]
        o == h.objs[me.obj]
        key == IF o.arg THEN keyOfNumber(v) ELSE v
        h1 == IF o.arg THEN Logged(h, "keySelector", v) ELSE h
    IN  IF o.arg /\ Throws(h, v) THEN Throw(h1)
        ELSE IF key \notin me.seen
        THEN Emit(SetIt(h1, it, [me EXCEPT !.seen = @ \cup {key}]), v)
        ELSE Skip(h1)

\* the loop body of intersect (lines 884-889); seen is the set made of
\* the other Sequence, enumerable.toSet()
IntersectBody(h, it, v) ==
    LET me == h.its[it]
        o == h.objs[me.obj]
        key == IF o.arg THEN keyOfNumber(v) ELSE v
        h1 == IF o.arg THEN Logged(h, "keySelector", v) ELSE h
    IN  IF o.arg /\ Throws(h, v) THEN Throw(h1)
        ELSE IF key \in me.seen THEN Emit(h1, v) ELSE Skip(h1)

\* The loop body of the generator of iterator it for the element v its
\* upstream gave: what it yields, if anything.
OnValue(h, it, v) ==
    LET me == h.its[it]
        o == h.objs[me.obj]
        op == o.op
    IN  CASE op = "select" ->
                IF Throws(h, v) THEN Throw(Logged(h, "mapper", v))
                ELSE Emit(Logged(h, "mapper", v), mapper(v))
          [] op = "where" -> WhereBody(h, it, v)
          [] op = "take" -> TakeBody(h, it, v)
          [] op = "distinct" -> DistinctBody(h, it, v)
          [] op = "distinctBy" -> DistinctByBody(h, it, v)
          [] op = "union" -> UnionBody(h, it, v)
          [] op = "intersect" -> IntersectBody(h, it, v)
          [] op = "memoize" ->
                LET key == NumberToJSON(v)
                IN  IF key \in DOMAIN o.cache
                    THEN Emit(h, o.cache[key])
                    ELSE IF Throws(h, v) THEN Throw(Logged(h, "fn", v))
                    ELSE Emit([Logged(h, "fn", v) EXCEPT
                                  !.objs[me.obj].cache = CacheSet(@, key, square(v))],
                              square(v))
          [] OTHER -> Emit(h, v)

\* One next() of iterator it: the array iterator's next element, or the
\* generator's body from where it is suspended to its next yield, its
\* return, or the exception that leaves it.
Next(h, it) ==
    LET me == h.its[it]
        o == h.objs[me.obj]
        op == o.op
    IN  IF me.st = "done" THEN Ret(h, "done", 0)
        ELSE IF op = "from"
        THEN IF me.i < Len(o.arg)
             THEN Ret([SetIt(h, it, [me EXCEPT !.i = @ + 1, !.st = "suspended"])
                          EXCEPT !.pulled = @ + 1],
                      "value", o.arg[me.i + 1])
             ELSE Ret(Finish(h, it), "done", 0)
        ELSE IF op = "cycle"
        THEN \* the iterator of an iterable that never ends
             Ret([SetIt(h, it, [me EXCEPT !.i = (@ + 1) % Len(o.arg), !.st = "suspended"])
                     EXCEPT !.pulled = @ + 1],
                 "value", o.arg[me.i + 1])
        ELSE IF op = "prepend" /\ me.phase = 0
        THEN \* yield value, before the loop over self
             Ret(SetIt(h, it, [me EXCEPT !.phase = 1, !.st = "suspended"]), "value", o.arg)
        ELSE IF op = "append" /\ me.phase = 1
        THEN \* the generator resumes after `yield value` and returns
             Ret(Finish(h, it), "done", 0)
        ELSE IF op = "orderBy" /\ me.phase = 0
        THEN \* Array.from(self.iterable): the upstream's iterable itself, read
             \* as an array-like without length when it has no iterator
             IF h.objs[o.up].op = "memoizeAsync"
             THEN OrderNext(SetIt(h, it, [me EXCEPT !.phase = 1, !.st = "suspended",
                                                    !.buf = <<SortItem(<<>>)>>]), it)
             ELSE LET g == GetIter(h, o.up)
                      d == Drain(g.h, g.it, <<>>)
                  IN  IF ~d.ok THEN Ret(Finish(d.h, it), "throw", d.v)
                      ELSE OrderNext(SetIt(d.h, it,
                               [me EXCEPT !.phase = 1, !.st = "suspended", !.up = g.it,
                                          !.buf = <<SortItem(d.arr)>>]), it)
        ELSE IF Materializes(op) /\ me.phase = 0
        THEN \* Array.from(self), self.toArray(): through self[Symbol.iterator]()
             LET g == GetIter(h, o.up)
             IN  IF ~g.ok THEN Ret(Finish(h, it), "throw", ModeMismatch)
                 ELSE LET d == Drain(g.h, g.it, <<>>)
                      IN  IF ~d.ok THEN Ret(Finish(d.h, it), "throw", d.v)
                          ELSE OrderNext(SetIt(d.h, it,
                                   [me EXCEPT !.phase = 1, !.st = "suspended", !.up = g.it,
                                       !.buf = IF op = "reverse"
                                               THEN <<EmitItem(Reverse(d.arr))>>
                                               ELSE <<SortItem(d.arr)>>]), it)
        ELSE IF Materializes(op)
        THEN OrderNext(h, it)
        ELSE IF op = "intersect" /\ me.phase = 0
        THEN \* const set = enumerable.toSet(): new Set(other), before the loop
             LET g == GetIter(h, 2)
                 d == Drain(g.h, g.it, <<>>)
             IN  Next(SetIt(d.h, it, [me EXCEPT !.phase = 1, !.seen = Range(d.arr)]), it)
        ELSE IF me.up = 0
        THEN \* the for-of over self begins: self[Symbol.iterator]()
             LET g == GetIter(h, o.up)
             IN  IF ~g.ok THEN Ret(Finish(h, it), "throw", ModeMismatch)
                 ELSE Next(SetIt(g.h, it, [me EXCEPT !.up = g.it]), it)
        ELSE LET r == Next(h, me.up)
                 mine == r.h.its[it]
             IN  IF r.kind = "throw" THEN Ret(Finish(r.h, it), "throw", r.v)
                 ELSE IF r.kind = "done"
                 THEN IF op \in {"concat", "union"} /\ mine.phase = 0
                      THEN \* the second loop begins: over the operand
                           LET g == GetIter(r.h, 2)
                           IN  Next(SetIt(g.h, it, [mine EXCEPT !.phase = 1, !.up = g.it]), it)
                      ELSE IF op = "append"
                      THEN Ret(SetIt(r.h, it, [mine EXCEPT !.phase = 1, !.st = "suspended"]),
                               "value", o.arg)
                      ELSE Ret(Finish(r.h, it), "done", 0)
                 ELSE LET b == OnValue(r.h, it, r.v)
                      IN  IF b.threw
                          THEN \* the exception leaves the for-of over self
                               Ret(Finish(IteratorReturn(b.h, mine.up), it), "throw", b.v)
                          ELSE IF b.yield
                          THEN Ret([b.h EXCEPT !.its[it].st = "suspended"], "value", b.v)
                          ELSE Next(b.h, it)

\* A constructor that runs the new generator up to its first yield
ConstructEager(h, op, arg) ==
    LET o == Len(h.objs) + 1
        g == IF op \in GenOps THEN Len(h.its) + 1 ELSE 0
        h1 == [h EXCEPT
                 !.objs = Append(@, [op |-> op, up |-> LastObj(h), arg |-> arg,
                                     gen |-> g, cache |-> <<>>]),
                 !.its = IF op \in GenOps THEN Append(@, NewIter(o)) ELSE @]
    IN  IF op \in GenOps THEN Next(h1, g).h ELSE h1

\* A stage operator called on the last object built: the new Sequence
\* object. For the operators written with a generator function it holds
\* generator(), a generator suspended at its start (`new
\* Enumerable(generator())`); for memoize and memoizeAsync it holds an
\* iterable with an empty Map. No line of any loop has run.
Construct(h, op, arg) ==
    LET o == Len(h.objs) + 1
        g == IF op \in GenOps THEN Len(h.its) + 1 ELSE 0
    IN  [h EXCEPT
           !.objs = Append(@, [op |-> op, up |-> LastObj(h), arg |-> arg,
                               gen |-> g, cache |-> <<>>]),
           !.its = IF op \in GenOps THEN Append(@, NewIter(o)) ELSE @]

\* no aggregation terminal was called
NoTerminal == [name |-> "", arg |-> 0, result |-> 0]

\* the values of the pipeline's sources
PVals == {1, 2}

\* the arguments an operator is called with: n of take, the value of
\* append and prepend, whether union and intersect get a keySelector
ArgsOf(op) ==
    CASE op = "take" -> (-1)..MaxTake
      [] op \in {"append", "prepend"} -> {1}
      [] op \in {"union", "intersect"} -> BOOLEAN
      [] OTHER -> {0}

InitPipe ==
    /\ \E src \in SeqsUpTo(PVals, PSrcLen), other \in {<<>>, <<2, 1>>} :
           heap = NewHeap(src, other)
    /\ pst = "build"
    /\ pit = 0
    /\ pnexts = 0
    /\ pout = <<>>
    /\ perr = NoError
    /\ term = NoTerminal

IdlePipe ==
    /\ heap = <<>>
    /\ pst = "idle"
    /\ pit = 0
    /\ pnexts = 0
    /\ pout = <<>>
    /\ perr = NoError
    /\ term = NoTerminal

\* The program calls a stage operator on the Sequence it holds
PipeConstruct(op, arg) ==
    /\ pst = "build"
    /\ Len(heap.objs) < 2 + MaxStages
    /\ heap' = Construct(heap, op, arg)
    /\ UNCHANGED <<pst, pit, pnexts, pout, perr, term, notPipe>>

\* A terminal begins its for-of over the Sequence: this[Symbol.iterator]()
PipeIterate ==
    /\ pst = "build"
    /\ LET g == GetIter(heap, LastObj(heap))
       IN  /\ heap' = g.h
           /\ pit' = g.it
           /\ pst' = IF g.ok THEN "pulling" ELSE "failed"
           /\ perr' = IF g.ok THEN NoError ELSE ModeMismatch
    /\ UNCHANGED <<pnexts, pout, term, notPipe>>

\* The terminal's for-of pulls: next() of the iterator
PipeNext ==
    /\ pst = "pulling"
    /\ LET r == Next(heap, pit)
       IN  /\ heap' = r.h
           /\ pst' = CASE r.kind = "value" -> "pulling"
                       [] r.kind = "done" -> "done"
                       [] OTHER -> "failed"
           /\ pout' = IF r.kind = "value" THEN Append(pout, r.v) ELSE pout
           /\ perr' = IF r.kind = "throw" THEN r.v ELSE perr
    /\ pnexts' = pnexts + 1
    /\ UNCHANGED <<pit, term, notPipe>>

NextPipe ==
    \/ \E op \in StageOps : \E arg \in ArgsOf(op) : PipeConstruct(op, arg)
    \/ PipeIterate
    \/ PipeNext

\* a pipeline whose caller-supplied functions throw on one value
InitFailure ==
    /\ \E src \in SeqsUpTo(PVals, PSrcLen), other \in {<<>>, <<2, 1>>}, x \in PVals :
           heap = [NewHeap(src, other) EXCEPT !.bad = {x}]
    /\ pst = "build"
    /\ pit = 0
    /\ pnexts = 0
    /\ pout = <<>>
    /\ perr = NoError
    /\ term = NoTerminal

\* the values of the arrays a single operator is applied to
QVals == {1, 2, 3}

\* Enumerable.from(src) and Enumerable.from(other), on which one operator
\* is about to be called
InitOperator ==
    /\ \E src \in SeqsUpTo(QVals, QMaxLen), other \in SeqsUpTo(QVals, QMaxLen) :
           heap = NewHeap(src, other)
    /\ pst = "build"
    /\ pit = 0
    /\ pnexts = 0
    /\ pout = <<>>
    /\ perr = NoError
    /\ term = NoTerminal

\* The program calls one stage operator on Enumerable.from(src)
OperatorConstruct(op, arg) ==
    /\ pst = "build"
    /\ Len(heap.objs) = 2
    /\ heap' = Construct(heap, op, arg)
    /\ UNCHANGED <<pst, pit, pnexts, pout, perr, term, notPipe>>

NextOperator ==
    \/ \E op \in StageOps : \E arg \in ArgsOf(op) : OperatorConstruct(op, arg)
    \/ PipeIterate
    \/ PipeNext

----------------------------------------------------------------------------
(* take, one iteration of its loop at a time (qinn.ts 450-463), over an   *)
(* array or over a source that never ends, with or without a select in    *)
(* between. pst is "pulling" while the consumer holds the value of a      *)
(* yield and is about to call next(), "running" while the generator of    *)
(* take runs inside a next().                                             *)

\* a take whose loop ends after its n-th yield
TakeLoopBreaks(h, it) ==
    LET me == h.its[it]
        atLimit == me.up # 0 /\ me.i >= h.objs[me.obj].arg
        g == IF me.up = 0 THEN GetIter(h, h.objs[me.obj].up)
             ELSE [h |-> h, it |-> me.up, ok |-> TRUE]
        r == Next(g.h, g.it)
        h1 == [r.h EXCEPT !.its[it].up = g.it]
    IN  IF atLimit THEN Ret(Finish(h, it), "done", 0)
        ELSE IF r.kind = "throw" THEN Ret(Finish(h1, it), "throw", r.v)
        ELSE IF r.kind = "done" THEN Ret(Finish(h1, it), "done", 0)
        ELSE LET b == TakeBody(h1, it, r.v)
             IN  IF b.yield
                 THEN Ret([b.h EXCEPT !.its[it].st = "suspended"], "value", b.v)
                 ELSE Ret(b.h, "again", 0)

\* One iteration of `for (const item of self)` in the generator of take
\* (lines 453-460): the loop asks self for its next element and ends when
\* there is none; the body yields the element or does nothing, and in both
\* cases the loop goes on to the next iteration.
TakeLoop(h, it) ==
    LET me == h.its[it]
        g == IF me.up = 0 THEN GetIter(h, h.objs[me.obj].up)
             ELSE [h |-> h, it |-> me.up, ok |-> TRUE]
        r == Next(g.h, g.it)
        h1 == [r.h EXCEPT !.its[it].up = g.it]
    IN  IF r.kind = "throw" THEN Ret(Finish(h1, it), "throw", r.v)
        ELSE IF r.kind = "done" THEN Ret(Finish(h1, it), "done", 0)
        ELSE LET b == TakeBody(h1, it, r.v)
             IN  IF b.yield
                 THEN Ret([b.h EXCEPT !.its[it].st = "suspended"], "value", b.v)
                 ELSE Ret(b.h, "again", 0)

\* the source of a take pipeline: an array, or an iterable that never ends
InitTake ==
    /\ \E src \in SeqsUpTo(PVals, PSrcLen) :
           \/ heap = NewHeap(src, <<>>)
           \/ src # <<>> /\ heap = [NewHeap(src, <<>>) EXCEPT !.objs[1] = Cycle(src)]
    /\ pst = "build"
    /\ pit = 0
    /\ pnexts = 0
    /\ pout = <<>>
    /\ perr = NoError
    /\ term = NoTerminal

\* The program calls select on the source, or take on what it holds
TakeConstruct(op, arg) ==
    /\ pst = "build"
    /\ heap.objs[LastObj(heap)].op # "take"
    /\ op = "select" => Len(heap.objs) = 2
    /\ heap' = Construct(heap, op, arg)
    /\ UNCHANGED <<pst, pit, pnexts, pout, perr, term, notPipe>>

\* The consumer begins its traversal of the Sequence take returned
TakeIterate ==
    /\ pst = "build"
    /\ heap.objs[LastObj(heap)].op = "take"
    /\ LET g == GetIter(heap, LastObj(heap))
       IN  /\ heap' = g.h
           /\ pit' = g.it
    /\ pst' = "pulling"
    /\ UNCHANGED <<pnexts, pout, perr, term, notPipe>>

\* The consumer calls next(): the generator of take starts or resumes
TakePull ==
    /\ pst = "pulling"
    /\ pst' = "running"
    /\ pnexts' = pnexts + 1
    /\ UNCHANGED <<heap, pit, pout, perr, term, notPipe>>

\* The generator of take runs one iteration of its loop
TakeIteration ==
    /\ pst = "running"
    /\ heap.pulled < MaxPulls
    /\ LET r == TakeLoop(heap, pit)
       IN  /\ heap' = r.h
           /\ pst' = CASE r.kind = "value" -> "pulling"
                       [] r.kind = "again" -> "running"
                       [] r.kind = "done" -> "done"
                       [] OTHER -> "failed"
           /\ pout' = IF r.kind = "value" THEN Append(pout, r.v) ELSE pout
           /\ perr' = IF r.kind = "throw" THEN r.v ELSE perr
    /\ UNCHANGED <<pit, pnexts, term, notPipe>>

NextTake ==
    \/ \E op \in {"select", "take"} : \E arg \in ArgsOf(op) : TakeConstruct(op, arg)
    \/ TakeIterate
    \/ TakePull
    \/ TakeIteration

----------------------------------------------------------------------------
(* The aggregation terminals (qinn.ts 289-438, 660-723): each is one     *)
(* for-of loop over the Sequence it is called on. Their results are the  *)
(* values undefined, a boolean, or a number; the quotient of average is  *)
(* kept as the pair of its terms. toMap and toSet (760-800) traverse the *)
(* Sequence in the same way and return a Map and a Set.                  *)

Undefined == [type |-> "undefined"]
JsBoolean(b) == [type |-> "boolean", v |-> b]
JsNumber(n) == [type |-> "number", num |-> n, den |-> 1]
\* sum / count
JsQuotient(sum, count) == [type |-> "number", num |-> sum, den |-> count]

\* new Set(this): the distinct elements in the order they were added
JsSet(elems) == [type |-> "Set", entries |-> elems]
\* a Map: its entries <<key, value>> in the order the keys were added
JsMap(entries) == [type |-> "Map", entries |-> entries]

Terminals == {"first", "count", "sum", "average", "max", "min", "all", "any", "contains"}

\* the terminals that collect the whole Sequence (lines 760-800)
Collectors == {"toSet", "toMap"}

\* the arguments a terminal is called with: whether first, count and any
\* get a predicate and sum and average a selector; the value of contains
TerminalArgs(name) ==
    CASE name \in {"first", "count", "any", "sum", "average"} -> BOOLEAN
      [] name = "all" -> {TRUE}
      [] name = "contains" -> QVals
      [] name = "toMap" -> BOOLEAN
      [] OTHER -> {FALSE}

\* the variables a terminal declares before its loop
NewAcc ==
    [i |-> 0, sum |-> 0, count |-> 0, hasValue |-> FALSE, max |-> 0, entries |-> <<>>]

\* set.add(x): a value that is in the Set is not added again
SetAdd(elems, x) == IF x \in Range(elems) THEN elems ELSE Append(elems, x)

\* map.has(key)
MapHas(entries, key) == \E i \in 1..Len(entries) : entries[i][1] = key

\* map.set(key, value): the value of a key that is in the Map is replaced
\* where the key stands
MapSet(entries, key, value) ==
    IF MapHas(entries, key)
    THEN [i \in 1..Len(entries) |->
             IF entries[i][1] = key THEN <<key, value>> ELSE entries[i]]
    ELSE Append(entries, <<key, value>>)

Return(h, acc, result) == [h |-> h, ret |-> TRUE, result |-> result, acc |-> acc]
Continue(h, acc) == [h |-> h, ret |-> FALSE, result |-> Undefined, acc |-> acc]

\* an any that runs its loop to the end
AnyBodyToTheEnd(h, arg, acc, item) ==
    LET h1 == IF arg THEN Logged(h, "any", item) ELSE h
    IN  Continue(h1, [acc EXCEPT !.hasValue = @ \/ ~arg \/ predicate(item)])

\* the loop body of any (lines 683-691)
AnyBody(h, arg, acc, item) ==
    LET h1 == IF arg THEN Logged(h, "any", item) ELSE h
        isMatch == ~arg \/ predicate(item)
    IN  IF isMatch THEN Return(h1, acc, JsBoolean(TRUE)) ELSE Continue(h1, acc)

\* The loop body of terminal name for the element item: the terminal
\* returns from inside the loop, or the loop goes on.
TerminalBody(h, name, arg, acc, item) ==
    CASE name = "first" ->
            \* lines 290-297
            IF arg
            THEN IF predicate(item)
                 THEN Return(Logged(h, "first", item), acc, JsNumber(item))
                 ELSE Continue(Logged(h, "first", item), acc)
            ELSE Return(h, acc, JsNumber(item))
      [] name = "count" ->
            \* lines 315-320
            IF arg /\ ~predicate(item)
            THEN Continue(Logged(h, "count", item), acc)
            ELSE Continue(IF arg THEN Logged(h, "count", item) ELSE h,
                          [acc EXCEPT !.i = @ + 1])
      [] name = "sum" ->
            \* lines 339-345
            IF arg
            THEN Continue(Logged(h, "sum", item), [acc EXCEPT !.i = @ + mapper(item)])
            ELSE Continue(h, [acc EXCEPT !.i = @ + item])
      [] name = "average" ->
            \* lines 364-371
            IF arg
            THEN Continue(Logged(h, "average", item),
                          [acc EXCEPT !.sum = @ + mapper(item), !.count = @ + 1])
            ELSE Continue(h, [acc EXCEPT !.sum = @ + item, !.count = @ + 1])
      [] name = "max" ->
            \* lines 394-402
            IF ~acc.hasValue
            THEN Continue(h, [acc EXCEPT !.max = item, !.hasValue = TRUE])
            ELSE Continue(h, IF item > acc.max THEN [acc EXCEPT !.max = item] ELSE acc)
      [] name = "min" ->
            \* lines 427-435
            IF ~acc.hasValue
            THEN Continue(h, [acc EXCEPT !.max = item, !.hasValue = TRUE])
            ELSE Continue(h, IF item < acc.max THEN [acc EXCEPT !.max = item] ELSE acc)
      [] name = "all" ->
            \* lines 661-665
            IF ~predicate(item)
            THEN Return(Logged(h, "all", item), acc, JsBoolean(FALSE))
            ELSE Continue(Logged(h, "all", item), acc)
      [] name = "any" -> AnyBody(h, arg, acc, item)
      [] name = "contains" ->
            \* lines 717-721
            IF item = arg THEN Return(h, acc, JsBoolean(TRUE)) ELSE Continue(h, acc)
      [] name = "toSet" ->
            \* line 799: the Set constructor adds every element
            Continue(h, [acc EXCEPT !.entries = SetAdd(@, item)])
      [] name = "toMap" ->
            \* lines 767-775; arg is warnOnDuplicates, keySelector is
            \* keyOfNumber and valueSelector is mapper
            LET key == keyOfNumber(item)
                h1 == Logged(h, "keySelector", item)
                h2 == IF arg /\ MapHas(acc.entries, key)
                      THEN Logged(h1, "console.warn", key) ELSE h1
            IN  Continue(Logged(h2, "valueSelector", item),
                         [acc EXCEPT !.entries = MapSet(@, key, mapper(item))])

\* an average that divides whatever the count is: 0 / 0 is NaN
AverageEndDivides(acc) == JsQuotient(acc.sum, acc.count)

\* the return of average (line 372)
AverageEnd(acc) ==
    IF acc.count = 0 THEN JsNumber(0) ELSE JsQuotient(acc.sum, acc.count)

\* what terminal name returns when its loop ended without a return
TerminalEnd(name, acc) ==
    CASE name = "first" -> Undefined
      [] name \in {"count", "sum"} -> JsNumber(acc.i)
      [] name = "average" -> AverageEnd(acc)
      [] name \in {"max", "min"} ->
            IF acc.hasValue THEN JsNumber(acc.max) ELSE Undefined
      [] name = "all" -> JsBoolean(TRUE)
      [] name = "any" -> JsBoolean(acc.hasValue)
      [] name = "contains" -> JsBoolean(FALSE)
      [] name = "toSet" -> JsSet(acc.entries)
      [] name = "toMap" -> JsMap(acc.entries)

RECURSIVE TerminalLoop(_, _, _, _, _)
\* the for-of loop of a terminal, from its next pull on
TerminalLoop(h, it, name, arg, acc) ==
    LET r == Next(h, it)
    IN  CASE r.kind = "throw" -> [h |-> r.h, ok |-> FALSE, result |-> Undefined, err |-> r.v]
          [] r.kind = "done" ->
                [h |-> r.h, ok |-> TRUE, result |-> TerminalEnd(name, acc), err |-> NoError]
          [] OTHER ->
                LET b == TerminalBody(r.h, name, arg, acc, r.v)
                IN  IF b.ret
                    THEN [h |-> IteratorReturn(b.h, it), ok |-> TRUE,
                          result |-> b.result, err |-> NoError]
                    ELSE TerminalLoop(b.h, it, name, arg, b.acc)

\* terminal name called on the last Sequence built
Terminal(h, name, arg) ==
    LET g == GetIter(h, LastObj(h))
    IN  IF ~g.ok
        THEN [h |-> g.h, ok |-> FALSE, result |-> Undefined, err |-> ModeMismatch]
        ELSE TerminalLoop(g.h, g.it, name, arg, NewAcc)

\* Enumerable.from(src), with Enumerable.from(other) for the operators
\* that take a second Sequence, on which at most one stage operator and
\* then a terminal are called
InitTerminal ==
    /\ \E src \in SeqsUpTo(QVals, QMaxLen), other \in {<<>>, <<2, 1>>} :
           heap = NewHeap(src, other)
    /\ pst = "build"
    /\ pit = 0
    /\ pnexts = 0
    /\ pout = <<>>
    /\ perr = NoError
    /\ term = NoTerminal

\* The program calls a terminal on the Sequence it holds
TerminalCall(name, arg) ==
    /\ pst = "build"
    /\ LET t == Terminal(heap, name, arg)
       IN  /\ heap' = t.h
           /\ pst' = IF t.ok THEN "returned" ELSE "failed"
           /\ perr' = t.err
           /\ term' = [name |-> name, arg |-> arg, result |-> t.result]
    /\ UNCHANGED <<pit, pnexts, pout, notPipe>>

NextTerminal ==
    \/ \E op \in StageOps : \E arg \in ArgsOf(op) : OperatorConstruct(op, arg)
    \/ \E name \in Terminals \cup Collectors :
           \E arg \in TerminalArgs(name) : TerminalCall(name, arg)

\* The program calls a second terminal on the Sequence whose
\* first terminal returned
TerminalAgain(name, arg) ==
    /\ pst = "returned"
    /\ LET t == Terminal(heap, name, arg)
       IN  /\ heap' = t.h
           /\ pst' = IF t.ok THEN "again" ELSE "failed"
           /\ perr' = t.err
           /\ term' = [name |-> name, arg |-> arg, result |-> t.result]
    /\ UNCHANGED <<pit, pnexts, pout, notPipe>>

NextReuse ==
    \/ \E op \in StageOps : \E arg \in ArgsOf(op) : OperatorConstruct(op, arg)
    \/ \E name \in Terminals \cup Collectors :
           \E arg \in TerminalArgs(name) : TerminalCall(name, arg)
    \/ \E name \in Terminals \cup Collectors :
           \E arg \in TerminalArgs(name) : TerminalAgain(name, arg)

----------------------------------------------------------------------------
(* Properties of synchronous memoize. *)

RECURSIVE SumUpTo(_, _)
\* f[1] + ... + f[n]
SumUpTo(f, n) == IF n = 0 THEN 0 ELSE f[n] + SumUpTo(f, n - 1)

\* the keys of the input
InputKeys == { KeyOf(input[i], useSel) : i \in 1..Len(input) }

\* how often fn was invoked on an element with key k
CallsForKey(k) ==
    SumUpTo([i \in 1..Len(input) |->
                IF KeyOf(input[i], useSel) = k THEN invoked[i] ELSE 0], Len(input))

\* the traversals that ran to the end of the input
FullTraversals == { t \in DOMAIN trav : trav[t].st = "done" }

\* the first position of the input that carries the key of position j
FirstWithKey(j) ==
    CHOOSE i \in 1..j :
        /\ KeyOf(input[i], useSel) = KeyOf(input[j], useSel)
        /\ \A h \in 1..(i - 1) : KeyOf(input[h], useSel) # KeyOf(input[j], useSel)

\* C1: once a traversal of the memoized Sequence has run to its end, fn has
\* been invoked exactly once for each distinct key of the input, however
\* many traversals ran and however often a key recurs: with k distinct keys
\* the number of invocations is k.
C1_MemoizeOncePerKey ==
    FullTraversals # {} =>
        /\ \A k \in InputKeys : CallsForKey(k) = 1
        /\ SumUpTo(invoked, Len(input)) = Cardinality(InputKeys)

\* two full traversals of an input in which a key recurs
C1_Witness ==
    /\ Cardinality(FullTraversals) >= 2
    /\ Len(input) = 3
    /\ Cardinality(InputKeys) = 2

\* C6: two elements with the same key share one cache entry although they
\* are different instances: the output at a later position is the value fn
\* computed for the first element with that key, and fn is never invoked on
\* the later element.
C6_SameKeySharesEntry ==
    \A t \in DOMAIN trav : \A j \in 1..Len(trav[t].out) :
        LET f == FirstWithKey(j)
        IN  /\ trav[t].out[j] = fn(input[f])
            /\ f < j => invoked[j] = 0

\* a later element with the key of an earlier one but other contents (the
\* keySelector reads the id only) has been served
C6_Witness ==
    \E t \in DOMAIN trav : \E j \in 1..Len(trav[t].out) :
        /\ useSel
        /\ FirstWithKey(j) < j
        /\ input[FirstWithKey(j)] # input[j]
        /\ trav[t].out[j] # fn(input[j])

\* the traversals that ended with the exception of fn
FailedTravs == { t \in DOMAIN trav : trav[t].st = "failed" }

\* C28: when fn throws for an element, the Map is left as it was: no entry
\* for the element's key, the earlier entries unchanged; and every
\* traversal that comes to the element calls fn for it again, so fn was
\* called on it once per traversal that failed.
C28_ThrowLeavesCacheAlone ==
    /\ [](\A t \in FailedTravs :
              LET i == trav[t].pos
              IN  /\ fnThrows(input[i])
                  /\ KeyOf(input[i], useSel) \notin DOMAIN cache
                  /\ invoked[i] = Cardinality(FailedTravs))
    /\ [][\A t \in DOMAIN trav :
              (trav[t].st # "failed" /\ trav'[t].st = "failed") => cache' = cache]_vars

\* both traversals ran into the throwing element, after an element whose
\* result is in the Map
C28_Witness ==
    /\ Cardinality(FailedTravs) = 2
    /\ cache # <<>>
    /\ \E i \in 1..Len(input) : invoked[i] = 2

----------------------------------------------------------------------------
(* Properties of memoizeAsync. *)

\* the keys of the input
AInputKeys == { KeyOf(ainput[i], auseSel) : i \in 1..Len(ainput) }

\* how often fn was invoked on an element with key k
ACallsForKey(k) ==
    SumUpTo([i \in 1..Len(ainput) |->
                IF KeyOf(ainput[i], auseSel) = k THEN ainvoked[i] ELSE 0], Len(ainput))

\* the key of the element at position j of the input
AKeyAt(j) == KeyOf(ainput[j], auseSel)

\* C2: over every interleaving of the pending asynchronous pulls fn is
\* invoked at most once per key, and a traversal that has requested a key,
\* also while the computation another traversal started for it is still
\* unresolved, finds fn invoked exactly once for it.
C2_AsyncOncePerKey ==
    /\ \A k \in AInputKeys : ACallsForKey(k) <= 1
    /\ \A t \in DOMAIN atrav : \A j \in 1..Len(atrav[t].got) :
           ACallsForKey(AKeyAt(j)) = 1

\* two traversals await the same unresolved Promise of one key
C2_Witness ==
    \E t1, t2 \in DOMAIN atrav :
        /\ t1 # t2
        /\ atrav[t1].st = "await" /\ atrav[t2].st = "await"
        /\ atrav[t1].wait = atrav[t2].wait
        /\ futures[atrav[t1].wait].status = "pending"
        /\ ACallsForKey(futures[atrav[t1].wait].key) = 1

\* C3: the Promise is in the Map by the time the generator that invoked fn
\* suspends: in every state between two uninterrupted steps, every key fn
\* was invoked for is in the Map, bound to the Promise that invocation made,
\* and every pull for a key has received the Promise the Map holds for it.
C3_FutureCachedBeforeAwait ==
    /\ \A i \in 1..Len(ainput) : ainvoked[i] > 0 => AKeyAt(i) \in DOMAIN acache
    /\ \A f \in DOMAIN futures :
           /\ futures[f].key \in DOMAIN acache
           /\ acache[futures[f].key] = f
    /\ \A t \in DOMAIN atrav : \A j \in 1..Len(atrav[t].got) :
           atrav[t].got[j] = acache[AKeyAt(j)]

\* a traversal is suspended on a pending Promise that another traversal,
\* pulling later, received from the Map
C3_Witness ==
    \E t1, t2 \in DOMAIN atrav : \E j \in 1..Len(ainput) :
        /\ t1 # t2
        /\ atrav[t1].st = "await" /\ atrav[t1].pos = j
        /\ futures[atrav[t1].wait].status = "pending"
        /\ Len(atrav[t2].got) >= j
        /\ atrav[t2].got[j] = atrav[t1].wait
        /\ ainvoked[j] = 1

\* C23: one traversal of a memoizeAsync Sequence has no fan-out: of the
\* Promises it has received, those it started among them, the only one
\* that can be unresolved is the one its generator awaits, and the
\* generator runs the loop body for an element only when the results of
\* all elements before it have been delivered.
C23_NoParallelFanOut ==
    \A t \in DOMAIN atrav :
        /\ \A j \in 1..Len(atrav[t].got) :
               futures[atrav[t].got[j]].status = "pending" =>
                   /\ atrav[t].st = "await"
                   /\ atrav[t].wait = atrav[t].got[j]
        /\ atrav[t].st = "await" => Len(atrav[t].out) = atrav[t].pos - 1

\* the only traversal begun awaits the unresolved Promise it started for
\* the second element, the Promise of the first one being resolved
C23_Witness ==
    \E t \in DOMAIN atrav :
        /\ \A u \in DOMAIN atrav \ {t} : atrav[u].st = "none"
        /\ atrav[t].st = "await"
        /\ atrav[t].pos = 2
        /\ Len(futures) = 2
        /\ atrav[t].wait = 2
        /\ futures[2].status = "pending"
        /\ futures[1].status = "resolved"

\* the Promises that have rejected
Rejected == { f \in DOMAIN futures : futures[f].status = "rejected" }

\* C29: a Promise that rejects stays in the Map under its key, rejected:
\* fn is invoked once for that key and never again, every pull that comes
\* to the key, in any traversal, receives that Promise, yields nothing and
\* fails with its rejection.
C29_RejectionStaysCached ==
    /\ [](\A f \in Rejected :
              /\ futures[f].key \in DOMAIN acache
              /\ acache[futures[f].key] = f
              /\ ACallsForKey(futures[f].key) = 1
              /\ \A t \in DOMAIN atrav : \A j \in 1..Len(atrav[t].got) :
                     AKeyAt(j) = futures[f].key =>
                         /\ atrav[t].got[j] = f
                         /\ j = Len(atrav[t].got)
                         /\ atrav[t].st \in {"await", "failed"}
                         /\ Len(atrav[t].out) = j - 1)
    /\ [](\A t \in DOMAIN atrav :
              atrav[t].st = "failed" => atrav[t].got[Len(atrav[t].got)] \in Rejected)
    /\ [][\A f \in Rejected : f \in DOMAIN futures' /\ futures'[f] = futures[f]]_vars
    /\ [][\A t \in DOMAIN atrav :
              (atrav[t].st = "await" /\ atrav[t].wait \in Rejected
                  /\ atrav'[t] # atrav[t]) => atrav'[t].st = "failed"]_vars

\* two traversals failed with the rejection of one Promise, made by the
\* only call of fn for its key
C29_Witness ==
    \E t1, t2 \in DOMAIN atrav :
        /\ t1 # t2
        /\ atrav[t1].st = "failed" /\ atrav[t2].st = "failed"
        /\ atrav[t1].got[Len(atrav[t1].got)] = atrav[t2].got[Len(atrav[t2].got)]
        /\ atrav[t1].got[Len(atrav[t1].got)] \in Rejected
        /\ ACallsForKey(AKeyAt(atrav[t1].pos)) = 1

\* the first element of the input with the key of element j: the one fn
\* is invoked on for that key
AFirstWithKey(j) ==
    CHOOSE i \in 1..j : AKeyAt(i) = AKeyAt(j) /\ \A h \in 1..(i - 1) : AKeyAt(h) # AKeyAt(j)

\* what one traversal alone yields: for every element, in input order, the
\* result of fn for the element's key
CompleteOutput == [j \in 1..Len(ainput) |-> fn(ainput[AFirstWithKey(j)])]

\* C30: traversals of one memoizeAsync Sequence over an array, interleaved
\* in any way, each receive the complete output in input order: each has
\* its own position in the array, which only its own steps move and only
\* by one, what it has received is the output up to its position, and when
\* it is done it has received all of it.
C30_InterleavedTraversalsComplete ==
    /\ [](\A t \in DOMAIN atrav :
              /\ Len(atrav[t].got) = atrav[t].pos
              /\ Len(atrav[t].out) \in {atrav[t].pos - 1, atrav[t].pos}
              /\ atrav[t].out = SubSeq(CompleteOutput, 1, Len(atrav[t].out))
              /\ atrav[t].st \in {"start", "suspended", "fetch", "done"} =>
                     Len(atrav[t].out) = atrav[t].pos
              /\ atrav[t].st = "done" => atrav[t].out = CompleteOutput)
    /\ [][\A t \in DOMAIN atrav :
              atrav'[t].pos # atrav[t].pos =>
                  /\ atrav'[t].pos = atrav[t].pos + 1
                  /\ \A u \in DOMAIN atrav \ {t} : atrav'[u] = atrav[u]]_vars

\* of two traversals of two elements one is done with the complete
\* output while the other has received the first element and has not
\* yet asked for the second
C30_Witness ==
    \E t1, t2 \in DOMAIN atrav :
        /\ t1 # t2
        /\ Len(ainput) = 2
        /\ AKeyAt(1) # AKeyAt(2)
        /\ atrav[t1].st = "done"
        /\ atrav[t1].out = CompleteOutput
        /\ atrav[t2].st = "suspended"
        /\ atrav[t2].pos = 1
        /\ atrav[t2].out = SubSeq(CompleteOutput, 1, 1)

----------------------------------------------------------------------------
(* Properties of both memoization layers. *)

\* C4: the Map is first-write-wins: no step of any pull, in the same or in
\* a later traversal, replaces or removes the entry of a key that is in
\* the Map.
C4_FirstWriteWins ==
    [][ /\ \A k \in DOMAIN cache : k \in DOMAIN cache' /\ cache'[k] = cache[k]
        /\ \A k \in DOMAIN acache : k \in DOMAIN acache' /\ acache'[k] = acache[k] ]_vars

\* a second traversal has pulled an element whose key the first traversal
\* had written, with other contents than the element that wrote it
C4_Witness ==
    \E t \in DOMAIN trav : \E j \in 1..Len(trav[t].out) :
        /\ \A u \in DOMAIN trav : trav[u].st # "none"
        /\ invoked[j] = 0
        /\ input[FirstWithKey(j)] # input[j]
        /\ KeyOf(input[j], useSel) \in DOMAIN cache

\* the value of the Promise the Map of memoizeAsync holds for position j
ACachedValue(j) == fn(ainput[futures[acache[AKeyAt(j)]].pos])

\* C5: a traversal of a memoized Sequence yields one output per input
\* element, in input order: the outputs so far are the cached results of
\* the keys of the elements pulled so far, position by position, and a
\* traversal that has ended has as many outputs as the input has elements.
C5_OneOutputPerInput ==
    /\ \A t \in DOMAIN trav :
           /\ trav[t].st \in {"suspended", "done"} => Len(trav[t].out) = trav[t].pos
           /\ trav[t].st = "done" => Len(trav[t].out) = Len(input)
           /\ \A j \in 1..Len(trav[t].out) :
                  trav[t].out[j] = cache[KeyOf(input[j], useSel)]
    /\ \A t \in DOMAIN atrav :
           /\ atrav[t].st \in {"suspended", "done"} => Len(atrav[t].out) = atrav[t].pos
           /\ atrav[t].st = "done" => Len(atrav[t].out) = Len(ainput)
           /\ \A j \in 1..Len(atrav[t].out) : atrav[t].out[j] = ACachedValue(j)

\* a traversal has ended on an input in which a key recurs
C5_Witness ==
    \E t \in DOMAIN trav :
        /\ trav[t].st = "done"
        /\ Len(input) = 3
        /\ KeyOf(input[3], useSel) = KeyOf(input[1], useSel)
        /\ KeyOf(input[2], useSel) # KeyOf(input[1], useSel)

----------------------------------------------------------------------------
(* Properties of the dual pull protocol. *)

IsPrefix(a, b) == Len(a) <= Len(b) /\ \A i \in 1..Len(a) : a[i] = b[i]

AsyncModes == {"async", "toArrayAsync"}

\* no consumer but c has taken an element of the source
OnlyReader(c) ==
    \A d \in DOMAIN cons \ {c} :
        /\ cons[d].pos = 0
        /\ cons[d].pend = <<>> \/ cons[d].pend[1].done

\* C8: on a Sequence built from an asynchronous-only source a synchronous
\* pull fails with the ModeMismatch error, whose message tells to consume
\* asynchronously, and yields no element; an asynchronous pull of the same
\* Sequence fails nowhere and, reading alone, ends with all the elements of
\* the source.
C8_SyncPullOfAsyncSourceFails ==
    ~HasIterator(skind) =>
        \A c \in DOMAIN cons :
            /\ cons[c].mode = "sync" =>
                   /\ cons[c].st = "failed"
                   /\ cons[c].err = ModeMismatch
                   /\ cons[c].out = <<>>
            /\ cons[c].mode \in AsyncModes =>
                   /\ cons[c].st # "failed"
                   /\ cons[c].err = NoError
                   /\ OnlyReader(c) => IsPrefix(cons[c].out, sitems)
                   /\ OnlyReader(c) /\ cons[c].st = "done" => cons[c].out = sitems

\* on one asynchronous-only Sequence a synchronous pull has failed and an
\* asynchronous pull has ended with its elements
C8_Witness ==
    \E c1, c2 \in DOMAIN cons :
        /\ skind = "asyncGenerator"
        /\ Len(sitems) >= 2
        /\ cons[c1].mode = "sync" /\ cons[c1].st = "failed"
        /\ cons[c2].mode = "async" /\ cons[c2].st = "done"
        /\ cons[c2].out = sitems

\* the elements of s are numbers, none a thenable
NoThenable(s) == \A i \in 1..Len(s) : s[i].kind = "value"

\* the elements of s before its first rejected Promise
BeforeRejection(s) ==
    LET R == { i \in 1..Len(s) : s[i].kind = "rejected" }
    IN  IF R = {} THEN s ELSE SubSeq(s, 1, (CHOOSE i \in R : \A j \in R : i <= j) - 1)

\* what awaiting each element of s gives
AwaitAll(s) == [i \in 1..Len(s) |-> Plain(s[i].v)]

\* C9 as the claim states it: an asynchronous pull of a Sequence built from
\* a synchronous source never fails and takes the elements one at a time in
\* the order of the source; over an array it ends with the elements a
\* synchronous pull ends with, so toArrayAsync() resolves to the array
\* toArray() returns, whatever the elements are.
C9_AsyncPullYieldsSyncElements ==
    HasIterator(skind) =>
        /\ \A c \in DOMAIN cons :
               /\ cons[c].st # "failed"
               /\ cons[c].err = NoError
               /\ skind = "array" \/ OnlyReader(c) =>
                      /\ IsPrefix(cons[c].out, sitems)
                      /\ Len(cons[c].out) = (IF cons[c].st = "done"
                                             THEN Len(sitems) ELSE cons[c].pos)
        /\ \A c1, c2 \in DOMAIN cons :
               /\ skind = "array"
               /\ cons[c1].mode = "sync" /\ cons[c1].st = "done"
               /\ cons[c2].mode \in AsyncModes /\ cons[c2].st = "done"
               => cons[c2].out = cons[c1].out

\* C9, amended: an asynchronous pull of a Sequence built from a synchronous
\* source never fails with ModeMismatch and takes the elements one at a
\* time in the order of the source, each as awaiting it gives it: a number
\* as it is, a fulfilled Promise as its value, and a rejected Promise fails
\* the pull with its reason after the elements before it. Over an array,
\* and over a one-shot generator for the one consumer that reads it, the
\* pull ends with the awaited elements of the whole source; when no element
\* is a thenable these are the elements a synchronous pull ends with, so
\* toArrayAsync() resolves to the array toArray() returns.
C9_AsyncPullOfSyncSource ==
    HasIterator(skind) =>
        /\ \A c \in DOMAIN cons :
               /\ cons[c].err # ModeMismatch
               /\ cons[c].mode = "sync" =>
                      /\ cons[c].st # "failed"
                      /\ skind = "array" \/ OnlyReader(c) =>
                             /\ IsPrefix(cons[c].out, sitems)
                             /\ cons[c].st = "done" => cons[c].out = sitems
               /\ cons[c].mode \in AsyncModes /\ (skind = "array" \/ OnlyReader(c)) =>
                      /\ IsPrefix(cons[c].out, AwaitAll(BeforeRejection(sitems)))
                      /\ cons[c].st = "iter" => Len(cons[c].out) = cons[c].pos
                      /\ cons[c].st = "done" =>
                             /\ BeforeRejection(sitems) = sitems
                             /\ cons[c].out = AwaitAll(sitems)
                      /\ cons[c].st = "failed" =>
                             /\ cons[c].out = AwaitAll(BeforeRejection(sitems))
                             /\ cons[c].pos = Len(cons[c].out) + 1
                             /\ sitems[cons[c].pos].kind = "rejected"
                             /\ cons[c].err = Rejection(sitems[cons[c].pos].v)
        /\ \A c1, c2 \in DOMAIN cons :
               /\ skind = "array"
               /\ NoThenable(sitems)
               /\ cons[c1].mode = "sync" /\ cons[c1].st = "done"
               /\ cons[c2].mode \in AsyncModes /\ cons[c2].st = "done"
               => cons[c2].out = cons[c1].out

\* toArray() and toArrayAsync() have both ended on one array of two
\* different numbers
C9_Witness ==
    \E c1, c2 \in DOMAIN cons :
        /\ skind = "array"
        /\ Len(sitems) = 2 /\ sitems[1] # sitems[2]
        /\ NoThenable(sitems)
        /\ cons[c1].mode = "sync" /\ cons[c1].st = "done"
        /\ cons[c2].mode = "toArrayAsync" /\ cons[c2].st = "done"
        /\ cons[c2].out = cons[c1].out

----------------------------------------------------------------------------
(* Properties of the ordering engine. *)

\* how often e occurs in the sequence s
Occurrences(s, e) == Cardinality({ i \in 1..Len(s) : s[i] = e })

IsPermutation(a, b) == \A e \in Range(a) \cup Range(b) : Occurrences(a, e) = Occurrences(b, e)

\* every key of the sequence compares with every other (no key is NaN)
KeysComparable(s) == \A i \in 1..Len(s) : ~selector(s[i]).nan

\* C10: the output of orderBy and of orderByDescending is a permutation of
\* the input: every element occurs in it as often as in the input.
C10_OrderIsPermutation ==
    odir \in {"asc", "desc"} => IsPermutation(oout, oinput)

\* a <= b on numbers
JsLessOrEqual(a, b) == ~a.nan /\ ~b.nan /\ a.n <= b.n

\* C11: the keys of adjacent elements of the output of orderBy never
\* decrease, those of the output of orderByDescending never increase.
C11_AdjacentKeysOrdered ==
    /\ odir = "asc" =>
           \A i \in 1..(Len(oout) - 1) :
               JsLessOrEqual(selector(oout[i]), selector(oout[i + 1]))
    /\ odir = "desc" =>
           \A i \in 1..(Len(oout) - 1) :
               JsLessOrEqual(selector(oout[i + 1]), selector(oout[i]))

\* an input of three different keys, the largest first and the smallest
\* last, ordered ascending without losing an element
C11_Witness ==
    /\ odir = "asc"
    /\ Len(oinput) >= 3
    /\ Len(oout) = Len(oinput)
    /\ JsGreater(selector(oinput[1]), selector(oinput[2]))
    /\ JsGreater(selector(oinput[2]), selector(oinput[Len(oinput)]))

\* the elements of the sequence whose key is k, in its order
WithKey(s, k) == SelectSeq(s, LAMBDA x : JsStrictEquals(selector(x), k))

\* C12: the elements of one key that the output of orderBy or of
\* orderByDescending holds stand in the order they have in the input.
C12_OrderIsStable ==
    odir \in {"asc", "desc"} =>
        \A k \in JsNumbers :
            WithKey(oout, k) # <<>> => WithKey(oout, k) = WithKey(oinput, k)

\* two different elements of one key that is not the pivot's, so that they
\* reach the equal bucket at the second level of the recursion, ordered
\* descending
C12_Witness ==
    /\ odir = "desc"
    /\ Len(oinput) >= 3
    /\ Len(oout) = Len(oinput)
    /\ JsStrictEquals(selector(oinput[1]), selector(oinput[2]))
    /\ oinput[1] # oinput[2]
    /\ ~JsStrictEquals(selector(oinput[1]), selector(oinput[Len(oinput)]))
    /\ \E i \in 3..Len(oinput) : JsLess(selector(oinput[i]), selector(oinput[1]))
    /\ \E i \in 3..Len(oinput) : JsGreater(selector(oinput[i]), selector(oinput[1]))

\* the calls of the recursion that have not run yet
PendingCalls == { i \in 1..Len(ostack) : ostack[i].k = "call" }

\* C25: the ordering recursion ends on every input: a nested call gets
\* fewer elements than its caller has, no call is nested deeper than the
\* input is long, an input of at most one element is returned as it is,
\* and the outermost generator returns.
C25_OrderingTerminates ==
    /\ [](\A i \in PendingCalls :
              /\ ostack[i].d <= Len(oinput)
              /\ ostack[i].d > 0 => Len(ostack[i].a) < ostack[i].n)
    /\ []((odir \in {"asc", "desc"} /\ Len(oinput) <= 1) => oout = oinput)
    /\ [](odir \in {"ascending", "descending"} => <>(odir \in {"asc", "desc"}))

\* three elements of rising keys: the recursion is as deep as it gets, a
\* call for one element at depth 2
C25_Witness ==
    /\ Len(oinput) = 3
    /\ \E i \in PendingCalls : ostack[i].d = 2 /\ Len(ostack[i].a) = 1

----------------------------------------------------------------------------
(* Properties of the operator pipeline. *)

\* no generator of the pipeline has run a line of its body
NoGeneratorStarted == \A g \in DOMAIN heap.its : heap.its[g].st = "start"

\* C7: building a pipeline of stage operators calls no function of the
\* caller and takes no element of a source: until the terminal has called
\* next() for the first time the log of calls is empty, no element was
\* pulled and every generator still stands at its start.
C7_ConstructionIsLazy ==
    (pst \in {"build", "pulling"} /\ pnexts = 0) =>
        /\ heap.log = <<>>
        /\ heap.pulled = 0
        /\ NoGeneratorStarted

\* a select and an intersect built over a source with elements, the
\* terminal's iterator obtained and next() not yet called
C7_Witness ==
    /\ pst = "pulling"
    /\ pnexts = 0
    /\ Len(heap.objs) = 2 + MaxStages
    /\ heap.objs[1].arg # <<>>
    /\ heap.objs[2].arg # <<>>
    /\ heap.objs[3].op = "select"
    /\ heap.objs[4].op = "intersect"

\* the pipeline holds a memoizeAsync stage: the Sequences from that stage
\* on have no synchronous traversal
HasAsyncOnlyStage == \E o \in DOMAIN heap.objs : heap.objs[o].op = "memoizeAsync"

\* the values that prepend stages yield before they pull their upstream
PrependedValues == { o \in DOMAIN heap.objs : heap.objs[o].op = "prepend" }

\* C22: a synchronous traversal of a pipeline that holds an
\* asynchronous-only Sequence never completes normally: it fails with the
\* ModeMismatch error at the first pull that reaches that Sequence, and
\* delivers no element of it (at most the values of prepend stages, which
\* are yielded before the upstream is pulled).
C22_SyncOverAsyncFails ==
    (pst # "idle" /\ HasAsyncOnlyStage) =>
        /\ pst # "done"
        /\ Len(pout) <= Cardinality(PrependedValues)
        /\ pst = "pulling" => pnexts = Len(pout)
        /\ pst = "failed" => perr = ModeMismatch

----------------------------------------------------------------------------
(* Properties of the single operators. *)

\* the array of Enumerable.from(src), the Sequence the stage is built over
SelfArray == heap.objs[1].arg

\* the array of Enumerable.from(other), the operator's argument
OtherArray == heap.objs[2].arg

\* toArray() of the single stage op built over Enumerable.from(src) has
\* returned
Applied(op) ==
    /\ pst = "done"
    /\ Len(heap.objs) = 3
    /\ heap.objs[3].op = op

\* the key of x under the equality rule chosen: keySelector(x), or x
KeyUnder(x, byKey) == IF byKey THEN keyOfNumber(x) ELSE x

\* the keys of the elements of the array
KeySetOf(arr, byKey) == { KeyUnder(arr[i], byKey) : i \in 1..Len(arr) }

RECURSIVE IsSubsequence(_, _)
\* a is b with some of its elements left out
IsSubsequence(a, b) ==
    IF a = <<>> THEN TRUE
    ELSE IF b = <<>> THEN FALSE
    ELSE IF Head(a) = Head(b) THEN IsSubsequence(Tail(a), Tail(b))
    ELSE IsSubsequence(a, Tail(b))

\* C13: intersect(other, keySelector?) yields an element x of self exactly
\* when the key of x is the key of some element of other, both keys taken
\* by the same rule, and its output is a subsequence of self.
C13_IntersectByKey ==
    Applied("intersect") =>
        LET byKey == heap.objs[3].arg
        IN  /\ IsSubsequence(pout, SelfArray)
            /\ \A x \in Range(SelfArray) :
                   x \in Range(pout) <=>
                       KeyUnder(x, byKey) \in KeySetOf(OtherArray, byKey)

\* C14: intersect does not deduplicate self: an element of self whose key
\* is the key of some element of other (the key set of other, both keys
\* taken by the same rule) is yielded once for each of its occurrences in
\* self.
C14_IntersectKeepsDuplicates ==
    Applied("intersect") =>
        LET byKey == heap.objs[3].arg
        IN  \A x \in Range(SelfArray) :
                KeyUnder(x, byKey) \in KeySetOf(OtherArray, byKey) =>
                    Occurrences(pout, x) = Occurrences(SelfArray, x)

\* C15: no two elements yielded by intersect are equal under the chosen
\* equality rule.
C15_IntersectIsDistinct ==
    Applied("intersect") =>
        LET byKey == heap.objs[3].arg
        IN  \A i, j \in 1..Len(pout) :
                i # j => KeyUnder(pout[i], byKey) # KeyUnder(pout[j], byKey)

\* the elements of the array that are the first of their key, in the
\* array's order
FirstSeen(arr, byKey) ==
    LET first(i) == \A j \in 1..(i - 1) : KeyUnder(arr[j], byKey) # KeyUnder(arr[i], byKey)
        idx == { i \in 1..Len(arr) : first(i) }
        nth(n) == CHOOSE i \in idx : Cardinality({ j \in idx : j < i }) = n - 1
    IN  [n \in 1..Cardinality(idx) |-> arr[nth(n)]]

\* C16: the output of distinct() is the first occurrence of each value of
\* the input, that of distinctBy(keySelector) the first occurrence of each
\* key, in first-seen order.
C16_DistinctKeepsFirstOccurrences ==
    /\ Applied("distinct") => pout = FirstSeen(SelfArray, FALSE)
    /\ Applied("distinctBy") => pout = FirstSeen(SelfArray, TRUE)

\* distinctBy over three elements, two of them different and of one key,
\* the first of which stands before an element of another key
C16_Witness ==
    /\ Applied("distinctBy")
    /\ Len(SelfArray) = 3
    /\ Len(pout) = 2
    /\ SelfArray[1] # SelfArray[3]
    /\ keyOfNumber(SelfArray[1]) = keyOfNumber(SelfArray[3])

\* C17: the output of union(other, keySelector?) is the first occurrence
\* of each key (or value) of the elements of self followed by those of
\* other, in first-seen order.
C17_UnionIsDeduplicatedConcatenation ==
    Applied("union") =>
        pout = FirstSeen(SelfArray \o OtherArray, heap.objs[3].arg)

\* a union by key in which other holds an element whose key occurred in
\* self and, after it, an element of a key not seen before
C17_Witness ==
    /\ Applied("union")
    /\ heap.objs[3].arg
    /\ Len(OtherArray) >= 2
    /\ \E i \in 1..Len(OtherArray) : \E j \in (i + 1)..Len(OtherArray) :
           /\ keyOfNumber(OtherArray[i]) \in KeySetOf(SelfArray, TRUE)
           /\ OtherArray[i] \notin Range(pout)
           /\ keyOfNumber(OtherArray[j]) \notin KeySetOf(SelfArray, TRUE)
           /\ OtherArray[j] \in Range(pout)

\* C21: take(n) yields the first min(n, length) elements of the upstream
\* in upstream order, and none when n <= 0.
C21_TakeYieldsFirstN ==
    Applied("take") =>
        LET n == heap.objs[3].arg
            m == IF n <= 0 THEN 0 ELSE IF n <= Len(SelfArray) THEN n ELSE Len(SelfArray)
        IN  pout = SubSeq(SelfArray, 1, m)

\* take(2) of three elements
C21_Witness ==
    /\ Applied("take")
    /\ heap.objs[3].arg = 2
    /\ Len(SelfArray) = 3
    /\ Len(pout) = 2

\* the pipeline is from(xs).select(f).where(p)
IsSelectWhere ==
    /\ pst # "idle"
    /\ Len(heap.objs) = 4
    /\ heap.objs[3].op = "select"
    /\ heap.objs[4].op = "where"

\* C24: in from(xs).select(f).where(p) the elements go through the stages
\* one at a time: the calls are f on element 1, p on its image, f on
\* element 2, p on its image and so on, each source element is pulled
\* only when the one before went through both stages, and the last
\* element pulled is the one just delivered (nothing is read ahead).
C24_OneElementAtATime ==
    IsSelectWhere =>
        /\ Len(heap.log) = 2 * heap.pulled
        /\ \A k \in 1..heap.pulled :
               /\ heap.log[2 * k - 1] = <<"mapper", SelfArray[k]>>
               /\ heap.log[2 * k] = <<"predicate", mapper(SelfArray[k])>>
        /\ pout = SelectSeq([k \in 1..heap.pulled |-> mapper(SelfArray[k])],
                            LAMBDA y : predicate(y))
        /\ (pst = "pulling" /\ pnexts > 0) => predicate(mapper(SelfArray[heap.pulled]))

\* the first element went through select and where and was delivered, the
\* second was not pulled yet
C24_Witness ==
    /\ IsSelectWhere
    /\ pst = "pulling"
    /\ Len(pout) = 1
    /\ heap.pulled = 1
    /\ Len(SelfArray) >= 2
    /\ Len(heap.log) = 2

----------------------------------------------------------------------------
(* Properties of the aggregation terminals. *)

\* the Sequence the terminal was called on, built anew
FreshHeap ==
    IF Len(heap.objs) = 2
    THEN NewHeap(SelfArray, OtherArray)
    ELSE Construct(NewHeap(SelfArray, OtherArray), heap.objs[3].op, heap.objs[3].arg)

\* toArray() of that Sequence
FreshToArray ==
    LET g == GetIter(FreshHeap, LastObj(FreshHeap))
    IN  IF g.ok THEN Drain(g.h, g.it, <<>>)
        ELSE [h |-> g.h, arr |-> <<>>, ok |-> FALSE, v |-> ModeMismatch]

\* the Sequence can be pulled synchronously and yields no element
SequenceIsEmpty == FreshToArray.ok /\ FreshToArray.arr = <<>>

\* the calls of the terminal's own predicate or selector
TerminalCalls == SelectSeq(heap.log, LAMBDA e : e[1] \in Terminals)

\* the calls of the functions handed to the stage
StageCalls == SelectSeq(heap.log, LAMBDA e : e[1] \notin Terminals)

\* the empty-sequence results of section 4.6
EmptyResult(name) ==
    CASE name \in {"first", "max", "min"} -> Undefined
      [] name \in {"count", "sum", "average"} -> JsNumber(0)
      [] name = "all" -> JsBoolean(TRUE)
      [] name \in {"any", "contains"} -> JsBoolean(FALSE)

\* C18: on an empty Sequence every terminal returns without failing and
\* without calling its predicate or selector: first, max and min return
\* undefined, count, sum and average 0, all true, any and contains false.
C18_EmptySequenceResults ==
    (term.name \in Terminals /\ SequenceIsEmpty) =>
        /\ pst = "returned"
        /\ term.result = EmptyResult(term.name)
        /\ TerminalCalls = <<>>

\* average with a selector called on a where that lets none of the
\* source's elements through
C18_Witness ==
    /\ pst = "returned"
    /\ term.name = "average"
    /\ term.arg
    /\ SequenceIsEmpty
    /\ SelfArray # <<>>
    /\ Len(heap.objs) = 3
    /\ heap.objs[3].op = "where"

\* whether the element decides the terminal
Decides(name, arg, x) ==
    CASE name \in {"first", "any"} -> ~arg \/ predicate(x)
      [] name = "all" -> ~predicate(x)
      [] name = "contains" -> x = arg
      [] OTHER -> FALSE

\* the place of the first element that decides the terminal, 0 if none does
DecidingIndex(arr, name, arg) ==
    IF \E i \in 1..Len(arr) : Decides(name, arg, arr[i])
    THEN CHOOSE i \in 1..Len(arr) :
             /\ Decides(name, arg, arr[i])
             /\ \A j \in 1..(i - 1) : ~Decides(name, arg, arr[j])
    ELSE 0

RECURSIVE NextTimes(_, _, _)
\* the heap after n calls of next() of the iterator
NextTimes(h, it, n) == IF n = 0 THEN h ELSE NextTimes(Next(h, it).h, it, n - 1)

\* the heap after exactly n elements were pulled from the Sequence built anew
FreshAfter(n) ==
    LET g == GetIter(FreshHeap, LastObj(FreshHeap))
    IN  NextTimes(g.h, g.it, n)

\* what the terminal returns at the deciding element x
DecidedResult(name, x) ==
    CASE name = "first" -> JsNumber(x)
      [] name = "all" -> JsBoolean(FALSE)
      [] OTHER -> JsBoolean(TRUE)

\* C19: first, any, all and contains return at the first element that
\* decides them: the upstream was pulled and the functions of the stage
\* were called exactly as far as that element needs, and the terminal's
\* predicate was called on the elements up to it and on no other.
C19_TerminalsShortCircuit ==
    (pst = "returned" /\ term.name \in {"first", "any", "all", "contains"}) =>
        LET arr == FreshToArray.arr
            d == DecidingIndex(arr, term.name, term.arg)
            withPredicate == term.name = "all" \/ (term.name \in {"first", "any"} /\ term.arg)
        IN  d > 0 =>
                /\ term.result = DecidedResult(term.name, arr[d])
                /\ heap.pulled = FreshAfter(d).pulled
                /\ StageCalls = FreshAfter(d).log
                /\ TerminalCalls =
                       [i \in 1..(IF withPredicate THEN d ELSE 0) |-> <<term.name, arr[i]>>]

\* all over a select of three elements, decided by the second: the third
\* element was never pulled
C19_Witness ==
    /\ pst = "returned"
    /\ term.name = "all"
    /\ Len(heap.objs) = 3
    /\ heap.objs[3].op = "select"
    /\ Len(SelfArray) = 3
    /\ DecidingIndex(FreshToArray.arr, "all", TRUE) = 2
    /\ heap.pulled = 2

----------------------------------------------------------------------------
(* Properties of a Sequence that is traversed twice. *)

\* the Sequence the terminals are called on was returned by an operator
\* written with a generator function
OnGeneratorStage == Len(heap.objs) = 3 /\ heap.objs[3].op \in GenOps

\* C26: a Sequence returned by a generator-backed operator is one-shot:
\* after a first terminal on it returned, at the end of the sequence or
\* from inside its loop, a second terminal on the same object pulls no
\* source element, calls no caller function, and returns what it returns
\* on an empty sequence.
C26_GeneratorStageIsOneShot ==
    [][(pst = "returned" /\ pst' # "returned" /\ OnGeneratorStage) =>
           /\ pst' = "again"
           /\ heap'.log = heap.log
           /\ heap'.pulled = heap.pulled
           /\ term'.result = TerminalEnd(term'.name, NewAcc)]_vars

\* a select whose first terminal returned from inside its loop after one
\* of three elements, and on which count was called next
C26_Witness ==
    /\ pst = "again"
    /\ OnGeneratorStage
    /\ heap.objs[3].op = "select"
    /\ Len(heap.objs[1].arg) = 3
    /\ heap.pulled = 1
    /\ term.name = "count"

----------------------------------------------------------------------------
(* Properties of take, one iteration at a time. *)

\* the calls of mapper made so far, by the select under the take
MapperCalls == SelectSeq(heap.log, LAMBDA e : e[1] = "mapper")

\* C27: take(n) goes on pulling after its n-th yield: it completes only
\* when its upstream is exhausted, with every element of the source pulled
\* and the select under it called on each, and so it never completes over
\* a source that never ends; every next() of the consumer after the yields
\* are used up stays inside the loop.
C27_TakePullsToTheEnd ==
    (pst \in {"pulling", "running", "done"}) =>
        LET src == heap.objs[1]
            n == heap.objs[Len(heap.objs)].arg
        IN  /\ pst = "done" =>
                  /\ src.op = "from"
                  /\ heap.pulled = Len(src.arg)
                  /\ Len(heap.objs) = 4 =>
                         MapperCalls = [i \in 1..Len(src.arg) |-> <<"mapper", src.arg[i]>>]
            /\ src.op = "cycle" => pst # "done"
            /\ (pst = "pulling" /\ pnexts > 0) => (Len(pout) = pnexts /\ Len(pout) <= n)
            /\ Len(heap.objs) = 4 => Len(MapperCalls) = heap.pulled

\* take(1) over select over a source that never ends: the one yield was
\* made, the consumer pulled again, and take pulled the source through
\* more than a whole further round
C27_Witness ==
    /\ pst = "running"
    /\ Len(heap.objs) = 4
    /\ heap.objs[1].op = "cycle"
    /\ heap.objs[4].arg = 1
    /\ Len(pout) = 1
    /\ heap.pulled > 1 + Len(heap.objs[1].arg)
    /\ Len(MapperCalls) = heap.pulled

----------------------------------------------------------------------------
(* Properties of failing caller functions. *)

\* the calls of caller functions that threw: those on a value of heap.bad
ThrowingCalls == { i \in 1..Len(heap.log) : Throws(heap, heap.log[i][2]) }

\* the generators of the pipeline that have not finished
OpenGenerators ==
    { i \in 1..Len(heap.its) :
          /\ heap.objs[heap.its[i].obj].op \notin {"from", "cycle"}
          /\ heap.its[i].st \notin {"start", "done"} }

\* C20: when a function of the caller throws during a pull, that pull
\* fails at the consumer with the function's own error and yields no
\* element; the throwing call is the last call made, so that no operator
\* caught the error, called the function again or went on to another
\* element, and the exception has finished every generator of the chain
\* that was running, so that none has a further element.
C20_FailurePropagates ==
    pst # "idle" =>
        /\ ThrowingCalls # {} <=> (pst = "failed" /\ perr = CallerError)
        /\ ThrowingCalls \subseteq {Len(heap.log)}
        /\ (pst = "failed" /\ perr = CallerError) =>
               /\ Len(pout) = pnexts - 1
               /\ OpenGenerators = {}

\* the predicate of a where throws on the second element, below a select:
\* the consumer got the first element and then the error
C20_Witness ==
    /\ pst = "failed"
    /\ perr = CallerError
    /\ Len(heap.objs) = 4
    /\ heap.objs[3].op = "where"
    /\ heap.objs[4].op = "select"
    /\ Len(pout) = 1
    /\ heap.log[Len(heap.log)][1] = "predicate"

----------------------------------------------------------------------------
(* The specifications: one per machine, the others idle. *)

\* synchronous memoize
MemoInit == InitMemo /\ IdleAsync /\ IdlePull /\ IdleOrder /\ IdlePipe
SpecMemo == MemoInit /\ [][NextMemo]_vars

\* memoizeAsync
AsyncInit == IdleMemo /\ InitAsync /\ IdlePull /\ IdleOrder /\ IdlePipe
SpecAsync == AsyncInit /\ [][NextAsync]_vars

\* memoize and memoizeAsync: one of the two Sequences is built
MemoizedInit == MemoInit \/ AsyncInit
MemoizedNext == NextMemo \/ NextAsync
SpecMemoized == MemoizedInit /\ [][MemoizedNext]_vars

\* the dual pull protocol
PullInit == IdleMemo /\ IdleAsync /\ InitPull /\ IdleOrder /\ IdlePipe
SpecPull == PullInit /\ [][NextPull]_vars

\* the ordering engine
OrderInit == IdleMemo /\ IdleAsync /\ IdlePull /\ InitOrder /\ IdlePipe
SpecOrder == OrderInit /\ [][NextOrder]_vars

\* the operator pipeline
PipeInit == IdleMemo /\ IdleAsync /\ IdlePull /\ IdleOrder /\ InitPipe
SpecPipe == PipeInit /\ [][NextPipe]_vars

\* one operator over two arrays
OperatorInit == IdleMemo /\ IdleAsync /\ IdlePull /\ IdleOrder /\ InitOperator
SpecOperator == OperatorInit /\ [][NextOperator]_vars

\* a terminal over at most one operator
TerminalInit == IdleMemo /\ IdleAsync /\ IdlePull /\ IdleOrder /\ InitTerminal
SpecTerminal == TerminalInit /\ [][NextTerminal]_vars

\* the operator pipeline with failing functions
FailureInit == IdleMemo /\ IdleAsync /\ IdlePull /\ IdleOrder /\ InitFailure
SpecFailure == FailureInit /\ [][NextPipe]_vars

\* the ordering recursion call by call; every step that can run does
SortInit == IdleMemo /\ IdleAsync /\ IdlePull /\ InitSort /\ IdlePipe
SpecSort == SortInit /\ [][NextSort]_vars /\ WF_vars(SortStep) /\ WF_vars(SortEnd)

\* one operator, then a terminal and a second terminal on the same Sequence
ReuseInit == IdleMemo /\ IdleAsync /\ IdlePull /\ IdleOrder /\ InitTerminal
SpecReuse == ReuseInit /\ [][NextReuse]_vars

\* take over an array or an endless source, one loop iteration at a time
TakeInit == IdleMemo /\ IdleAsync /\ IdlePull /\ IdleOrder /\ InitTake
SpecTake == TakeInit /\ [][NextTake]_vars

====
